---- MODULE Spec2Model ----
(***************************************************************************)
(* A model of modules/processing.py: the process_images main loop          *)
(* (seed resolution, prompt/seed slicing, the txt2img hires pass, the      *)
(* img2img batch adjustment, infotext assembly, Processed), and of the     *)
(* conditioning caches of StableDiffusionProcessing.                        *)
(*                                                                         *)
(* Three specifications share the module:                                  *)
(*   Spec      - one run of process_images, interleaved with the UI        *)
(*               thread setting state.interrupted / state.skipped          *)
(*   SpecCache - get_conds_with_caching / setup_conds / calculate_hr_conds *)
(*               / close over the class-level and per-request cache slots  *)
(*   SpecSeed  - get_fixed_seed as a function of its input                 *)
(***************************************************************************)
EXTENDS Integers, Sequences, FiniteSets, TLC

VARIABLES
    pc,             \* position of process_images_inner
    p,              \* the StableDiffusionProcessing request object
    state,          \* shared.state: interrupted, skipped, job_count, ...
    opts,           \* shared.opts: the options the run reads
    n,              \* the loop variable of "for n in range(p.n_iter)"
    infotexts,      \* local list infotexts
    output_images,  \* local list output_images
    samples,        \* local samples_ddim: the latent batch sample() is building
    res,            \* the value process_images returns (Processed), or NoRes
    exc,            \* the exception that left process_images, or "none"
    hist,           \* history: interrupt polls made, the number of polls made
                    \* when the flag was set (-1: not set), the request as given
    cache,          \* SpecCache: the cache slots, class level and request level
    call,           \* SpecCache: the last get_conds_with_caching calls
    cpc,            \* SpecCache: life cycle of the request object
    sd,             \* SpecSeed: the seeds of a request through fix_seed
    fmt,            \* SpecInfotext: the texts create_infotext assembles
    dec,            \* SpecDecode: decode_latent_batch, sample by sample
    inp,            \* SpecImg2Img: Img2Img.init and sample on a masked image
    jobs,           \* SpecJobs: the job count of shared.state over calls of init
    ad              \* SpecAnimateDiff: an AnimateDiffProcess object and its request

vars == <<pc, p, state, opts, n, infotexts, output_images, samples, res, exc, hist,
          cache, call, cpc, sd, fmt, dec, inp, jobs, ad>>
runVars == <<pc, p, state, opts, n, infotexts, output_images, samples, res, exc,
            hist>>
cacheVars == <<cache, call, cpc>>

(***************************************************************************)
(* Bounds of the model.                                                    *)
(***************************************************************************)
MaxBatch == 3
MaxIter == 2
MaxCacheOps == 4
MaxFixSeed == 2
MaxPairs == 2
MaxDecode == 3
MaxBlur == 2

(***************************************************************************)
(* Program constants.                                                      *)
(***************************************************************************)
opt_C == 4
opt_f == 8

(***************************************************************************)
(* Python values: None, an int, a str, a list.  One record shape, so that  *)
(* values of different Python types compare unequal instead of failing.    *)
(* A Python int is unbounded and a seed may reach 4294967293, beyond the   *)
(* integers TLC computes with, so an int is held in two limbs:     *)
(* the number is hi * LimbBase + i with 0 <= i < LimbBase.                 *)
(***************************************************************************)
LimbBase == 256 * 256
BigV(hi, lo) == [t |-> "int", hi |-> hi, i |-> lo, s |-> "", l |-> <<>>]
NoneV == [t |-> "none", hi |-> 0, i |-> 0, s |-> "", l |-> <<>>]
IntV(x) == BigV(x \div LimbBase, x % LimbBase)
StrV(x) == [t |-> "str", hi |-> 0, i |-> 0, s |-> x, l |-> <<>>]
ListV(xs) == [t |-> "list", hi |-> 0, i |-> 0, s |-> "", l |-> xs]

\* v + x for an int v and a small x
AddInt(v, x) == BigV(v.hi + ((v.i + x) \div LimbBase), (v.i + x) % LimbBase)

\* a < b for ints
LessInt(a, b) == a.hi < b.hi \/ (a.hi = b.hi /\ a.i < b.i)

\* a prompt argument: a str, or a list of str
PScalar(x) == [isList |-> FALSE, s |-> x, l |-> <<>>]
PList(xs) == [isList |-> TRUE, s |-> "", l |-> xs]

\* Python truthiness of a value ("x or y", "if x")
Truthy(v) ==
    CASE v.t = "none" -> FALSE
      [] v.t = "int" -> v.i # 0 \/ v.hi # 0
      [] v.t = "list" -> v.l # <<>>
      [] OTHER -> v.s # ""

Min(a, b) == IF a < b THEN a ELSE b
Max(a, b) == IF a < b THEN b ELSE a

\* seq[a:b] of Python, 0-based, clamped to the list
Slice(seq, a, b) ==
    LET lo == Min(a, Len(seq))
        hi == Min(b, Len(seq))
    IN  IF hi <= lo THEN <<>> ELSE SubSeq(seq, lo + 1, hi)

\* k * [x]
Repeat(x, k) == [j \in 1..k |-> x]

(***************************************************************************)
(* An insertion-ordered dict as a sequence of [k, v] pairs.                *)
(***************************************************************************)
DictHas(d, key) == \E j \in 1..Len(d) : d[j].k = key

DictGet(d, key) ==
    IF DictHas(d, key)
    THEN d[CHOOSE j \in 1..Len(d) : d[j].k = key].v
    ELSE NoneV

\* d[key] = val: an existing key keeps its place
DictSet(d, key, val) ==
    IF DictHas(d, key)
    THEN [j \in 1..Len(d) |-> IF d[j].k = key THEN [k |-> key, v |-> val] ELSE d[j]]
    ELSE Append(d, [k |-> key, v |-> val])

RECURSIVE DictPop(_, _)
DictPop(d, key) ==
    IF d = <<>> THEN <<>>
    ELSE IF Head(d).k = key THEN Tail(d)
    ELSE <<Head(d)>> \o DictPop(Tail(d), key)

\* {**a, **b}
RECURSIVE DictUpdate(_, _)
DictUpdate(a, b) ==
    IF b = <<>> THEN a
    ELSE DictUpdate(DictSet(a, Head(b).k, Head(b).v), Tail(b))

RECURSIVE DictNotNone(_)
DictNotNone(d) ==
    IF d = <<>> THEN <<>>
    ELSE IF Head(d).v.t = "none" THEN DictNotNone(Tail(d))
    ELSE <<Head(d)>> \o DictNotNone(Tail(d))

(***************************************************************************)
(* get_fixed_seed: r is the value random.randrange(4294967294) returns.    *)
(***************************************************************************)
\* 4294967294 = 65535 * 65536 + 65534
RandomRange == BigV(LimbBase - 1, LimbBase - 2)
RandomDraws == {IntV(0), IntV(1), AddInt(RandomRange, -1)}

get_fixed_seed_always_random(seed, r) == r

get_fixed_seed_keeps_sentinel(seed, r) ==
    IF seed.t = "none" \/ seed = StrV("") THEN r ELSE seed

get_fixed_seed_signed(seed, r) ==
    IF seed.t = "none" \/ seed = StrV("") \/ seed = IntV(-1)
    THEN AddInt(r, -1)
    ELSE seed

get_fixed_seed(seed, r) ==
    IF seed.t = "none" \/ seed = StrV("") \/ seed = IntV(-1)
    THEN r
    ELSE seed

(***************************************************************************)
(* The per-image seed lists of process_images_inner (a scalar seed).       *)
(***************************************************************************)
ExpandSeeds_always_offset(seed, subseed_strength, count) ==
    [x \in 1..count |-> AddInt(seed, x - 1)]

ExpandSeeds(seed, subseed_strength, count) ==
    [x \in 1..count |-> AddInt(seed, IF subseed_strength = 0 THEN x - 1 ELSE 0)]

ExpandSubseeds(subseed, count) ==
    [x \in 1..count |-> AddInt(subseed, x - 1)]

(***************************************************************************)
(* StableDiffusionProcessing.setup_prompts and the Txt2Img override.       *)
(* shared.prompt_styles.apply_styles_to_prompt is the identity for the     *)
(* empty style list the requests carry.                                    *)
(***************************************************************************)
ExpandPrompt(pr, count) == IF pr.isList THEN pr.l ELSE Repeat(pr.s, count)

base_setup_prompts(q) ==
    LET ap == ExpandPrompt(q.prompt, q.batch_size * q.n_iter)
        an == ExpandPrompt(q.negative_prompt, q.batch_size * q.n_iter)
    IN  [q EXCEPT !.all_prompts = ap,
                  !.all_negative_prompts = an,
                  !.main_prompt = ap[1],
                  !.main_negative_prompt = an[1]]

setup_prompts(q) ==
    LET b == base_setup_prompts(q)
    IN  IF q.kind # "txt2img" \/ ~q.enable_hr THEN b
        ELSE
          LET hp == IF b.hr_prompt = PScalar("") THEN b.prompt ELSE b.hr_prompt
              hn == IF b.hr_negative_prompt = PScalar("")
                    THEN b.negative_prompt ELSE b.hr_negative_prompt
          IN  [b EXCEPT !.hr_prompt = hp,
                        !.hr_negative_prompt = hn,
                        !.all_hr_prompts = ExpandPrompt(hp, b.batch_size * b.n_iter),
                        !.all_hr_negative_prompts =
                            ExpandPrompt(hn, b.batch_size * b.n_iter)]

(***************************************************************************)
(* create_infotext.  The infotext is kept in its parts: the prompt text,   *)
(* the negative-prompt line (NoneV when the line is left out) and the      *)
(* pairs of the parameter line, in dictionary order, None values dropped.  *)
(***************************************************************************)
SizeText(w, h) == ToString(w) \o "x" \o ToString(h)

program_version == "v1.6.0"

generation_params(q, o, all_seeds, all_subseeds, index, use_main_prompt) ==
    LET enable_hr == IF q.kind = "txt2img" THEN q.enable_hr ELSE FALSE
        head == <<
          [k |-> "Steps", v |-> IntV(q.steps)],
          [k |-> "Sampler", v |-> q.sampler_name],
          [k |-> "CFG scale", v |-> q.cfg_scale],
          [k |-> "Image CFG scale", v |-> NoneV],
          [k |-> "Seed", v |-> IF use_main_prompt THEN q.all_seeds[1]
                                ELSE all_seeds[index + 1]],
          [k |-> "Face restoration", v |-> NoneV],
          [k |-> "Size", v |-> StrV(SizeText(q.width, q.height))],
          [k |-> "Model hash", v |-> IF o.add_model_hash_to_info
                                     THEN q.sd_model_hash ELSE NoneV],
          [k |-> "Model", v |-> IF o.add_model_name_to_info
                                THEN q.sd_model_name ELSE NoneV],
          [k |-> "VAE hash", v |-> NoneV],
          [k |-> "VAE", v |-> NoneV],
          [k |-> "Variation seed",
           v |-> IF q.subseed_strength = 0 THEN NoneV
                 ELSE IF use_main_prompt THEN q.all_subseeds[1]
                 ELSE all_subseeds[index + 1]],
          [k |-> "Variation seed strength",
           v |-> IF q.subseed_strength = 0 THEN NoneV
                 ELSE IntV(q.subseed_strength)],
          [k |-> "Seed resize from", v |-> NoneV],
          [k |-> "Denoising strength", v |-> q.denoising_strength],
          [k |-> "Conditional mask weight", v |-> NoneV],
          [k |-> "Clip skip", v |-> NoneV],
          [k |-> "ENSD", v |-> NoneV],
          [k |-> "Token merging ratio", v |-> NoneV],
          [k |-> "Token merging ratio hr", v |-> NoneV],
          [k |-> "Init image hash", v |-> NoneV],
          [k |-> "RNG", v |-> NoneV],
          [k |-> "NGMS", v |-> NoneV],
          [k |-> "Tiling", v |-> IF q.tiling THEN StrV("True") ELSE NoneV] >>
        tail == <<
          [k |-> "Version", v |-> IF o.add_version_to_infotext
                                  THEN StrV(program_version) ELSE NoneV],
          [k |-> "User", v |-> NoneV] >>
    IN  DictUpdate(DictUpdate(head, q.extra_generation_params), tail)

create_infotext_first_seed(q, o, all_prompts, all_seeds, all_subseeds, index, all_negative_prompts, use_main_prompt) ==
    [prompt_text |-> q.main_prompt,
     negative |-> IF all_negative_prompts[index + 1] # ""
                  THEN StrV(q.main_negative_prompt) ELSE NoneV,
     params |-> DictNotNone(
         generation_params(q, o, all_seeds, all_subseeds, 0, use_main_prompt))]

create_infotext(q, o, all_prompts, all_seeds, all_subseeds, index, all_negative_prompts, use_main_prompt) ==
    [prompt_text |-> q.main_prompt,
     negative |-> IF all_negative_prompts[index + 1] # ""
                  THEN StrV(q.main_negative_prompt) ELSE NoneV,
     params |-> DictNotNone(
         generation_params(q, o, all_seeds, all_subseeds, index, use_main_prompt))]

(***************************************************************************)
(* create_infotext, the text.  A text is a sequence of characters; a value *)
(* of generation_params is None, a str, an int or a list of str.           *)
(***************************************************************************)
NL == "\n"
NoneT == [t |-> "none", s |-> <<>>, i |-> 0, l |-> <<>>]
StrT(chars) == [t |-> "str", s |-> chars, i |-> 0, l |-> <<>>]
IntT(x) == [t |-> "int", s |-> <<>>, i |-> x, l |-> <<>>]
ListT(xs) == [t |-> "list", s |-> <<>>, i |-> 0, l |-> xs]

RECURSIVE Join(_, _)
Join(texts, sep) ==
    IF texts = <<>> THEN <<>>
    ELSE IF Len(texts) = 1 THEN texts[1]
    ELSE texts[1] \o sep \o Join(Tail(texts), sep)

Digit(d) == <<"0", "1", "2", "3", "4", "5", "6", "7", "8", "9">>[d + 1]

\* str(x) of a non-negative int
RECURSIVE Digits(_)
Digits(x) == IF x < 10 THEN <<Digit(x)>> ELSE Digits(x \div 10) \o <<Digit(x % 10)>>

\* repr(x) of a str without quotes or backslashes
Repr(chars) == <<"'">> \o chars \o <<"'">>

\* str(v)
Str(v) ==
    CASE v.t = "str" -> v.s
      [] v.t = "int" -> Digits(v.i)
      [] v.t = "list" -> <<"[">> \o Join([j \in 1..Len(v.l) |-> Repr(v.l[j])],
                                         <<",", " ">>) \o <<"]">>
      [] OTHER -> <<"N", "o", "n", "e">>

\* json.dumps(x, ensure_ascii=False) of a str
RECURSIVE JsonEscape(_)
JsonEscape(chars) ==
    IF chars = <<>> THEN <<>>
    ELSE (CASE Head(chars) = "\"" -> <<"\\", "\"">>
            [] Head(chars) = "\\" -> <<"\\", "\\">>
            [] Head(chars) = NL -> <<"\\", "n">>
            [] OTHER -> <<Head(chars)>>) \o JsonEscape(Tail(chars))

JsonString(chars) == <<"\"">> \o JsonEscape(chars) \o <<"\"">>

\* json.dumps(v, ensure_ascii=False)
JsonDumps(v) ==
    CASE v.t = "str" -> JsonString(v.s)
      [] v.t = "int" -> Digits(v.i)
      [] v.t = "list" -> <<"[">> \o Join([j \in 1..Len(v.l) |-> JsonString(v.l[j])],
                                         <<",", " ">>) \o <<"]">>
      [] OTHER -> <<"n", "u", "l", "l">>

Contains(chars, c) == \E j \in 1..Len(chars) : chars[j] = c

\* quote(text), as the f-string then renders it
quote_never(v) == Str(v)

quote(v) ==
    IF ~Contains(Str(v), ",") /\ ~Contains(Str(v), NL) /\ ~Contains(Str(v), ":")
    THEN Str(v)
    ELSE JsonDumps(v)

\* k if k == v else f"{k}: {quote(v)}"
PairText(k, v) ==
    IF v.t = "str" /\ v.s = k THEN k ELSE k \o <<":", " ">> \o quote(v)

\* the pairs whose value is not None, rendered, in dictionary order
RECURSIVE PairTexts(_)
PairTexts(d) ==
    IF d = <<>> THEN <<>>
    ELSE IF Head(d).v.t = "none" THEN PairTexts(Tail(d))
    ELSE <<PairText(Head(d).k, Head(d).v)>> \o PairTexts(Tail(d))

generation_params_text(d) == Join(PairTexts(d), <<",", " ">>)

Whitespace == {" ", NL, "\t", "\r"}

RECURSIVE LStrip(_)
LStrip(chars) ==
    IF chars # <<>> /\ Head(chars) \in Whitespace THEN LStrip(Tail(chars)) ELSE chars

RECURSIVE RStrip(_)
RStrip(chars) ==
    IF chars # <<>> /\ chars[Len(chars)] \in Whitespace
    THEN RStrip(SubSeq(chars, 1, Len(chars) - 1))
    ELSE chars

\* str.strip()
Strip(chars) == RStrip(LStrip(chars))

NegativePromptLabel ==
    <<"N", "e", "g", "a", "t", "i", "v", "e", " ", "p", "r", "o", "m", "p", "t", ":", " ">>

\* "\nNegative prompt: ..." if all_negative_prompts[index] else ""
negative_prompt_text_always(main_negative_prompt, negative_prompt) ==
    <<NL>> \o NegativePromptLabel \o main_negative_prompt

negative_prompt_text(main_negative_prompt, negative_prompt) ==
    IF negative_prompt # <<>>
    THEN <<NL>> \o NegativePromptLabel \o main_negative_prompt
    ELSE <<>>

\* f"{prompt_text}{negative_prompt_text}\n{generation_params_text}".strip()
infotext(main_prompt, main_negative_prompt, negative_prompt, d) ==
    Strip(main_prompt
          \o negative_prompt_text(main_negative_prompt, negative_prompt)
          \o <<NL>> \o generation_params_text(d))

(***************************************************************************)
(* The conditioning caches.  A slot is the two-element list                *)
(* [cached_params, tensor] ([None, None] when empty).  The class attributes*)
(* (cls) and the attributes of the request object (inst) name list         *)
(* objects; aliased[s] says that both name the same object, as they do     *)
(* from __init__ until close() rebinds the class attribute.                *)
(***************************************************************************)
SlotNames == {"cached_c", "cached_uc", "cached_hr_c", "cached_hr_uc"}

CachedParams(prompts, steps, clip_skip, checkpoint, extra_network_data, crop_left, crop_top, width, height) ==
    [prompts |-> prompts, steps |-> steps, clip_skip |-> clip_skip,
     checkpoint |-> checkpoint, extra_network_data |-> extra_network_data,
     crop_left |-> crop_left, crop_top |-> crop_top,
     width |-> width, height |-> height]

NoParams == CachedParams(<<>>, 0, 0, "", "", 0, 0, 0, 0)
NoTensor == [fn |-> "none", for |-> NoParams]
EmptySlot == [has |-> FALSE, key |-> NoParams, val |-> NoTensor]

\* function(shared.sd_model, required_prompts, steps), under the model state
\* (clip skip, checkpoint, active extra networks) the key records
Compute(fn, cached_params) == [fn |-> fn, for |-> cached_params]

EmptyCache ==
    [cls |-> [s \in SlotNames |-> EmptySlot],
     inst |-> [s \in SlotNames |-> EmptySlot],
     aliased |-> [s \in SlotNames |-> TRUE]]

\* a write through the request's reference to the list object
WriteSlot(c, name, slot) ==
    [c EXCEPT !.inst[name] = slot,
              !.cls[name] = IF c.aliased[name] THEN slot ELSE @]

SlotHits(c, name, cached_params) ==
    c.inst[name].has /\ c.inst[name].key = cached_params

get_conds_with_caching_no_check(c, fn, cached_params, caches) ==
    LET val == Compute(fn, cached_params)
    IN  [ret |-> val, computed |-> 1,
         cache |-> WriteSlot(c, caches[1],
                             [has |-> TRUE, key |-> cached_params, val |-> val])]

get_conds_with_caching_stores_last(c, fn, cached_params, caches) ==
    IF \E j \in 1..Len(caches) : SlotHits(c, caches[j], cached_params)
    THEN LET j == CHOOSE x \in 1..Len(caches) :
                    /\ SlotHits(c, caches[x], cached_params)
                    /\ \A y \in 1..(x - 1) : ~SlotHits(c, caches[y], cached_params)
         IN  [ret |-> c.inst[caches[j]].val, computed |-> 0, cache |-> c]
    ELSE LET val == Compute(fn, cached_params)
         IN  [ret |-> val, computed |-> 1,
              cache |-> WriteSlot(c, caches[Len(caches)],
                                  [has |-> TRUE, key |-> cached_params, val |-> val])]

get_conds_with_caching_keeps_key(c, fn, cached_params, caches) ==
    IF \E j \in 1..Len(caches) : SlotHits(c, caches[j], cached_params)
    THEN LET j == CHOOSE x \in 1..Len(caches) :
                    /\ SlotHits(c, caches[x], cached_params)
                    /\ \A y \in 1..(x - 1) : ~SlotHits(c, caches[y], cached_params)
         IN  [ret |-> c.inst[caches[j]].val, computed |-> 0, cache |-> c]
    ELSE LET val == Compute(fn, cached_params)
             old == c.inst[caches[1]]
         IN  [ret |-> val, computed |-> 1,
              cache |-> WriteSlot(c, caches[1],
                  [has |-> TRUE,
                   key |-> IF old.has THEN old.key ELSE cached_params,
                   val |-> val])]

get_conds_with_caching_first_only(c, fn, cached_params, caches) ==
    IF SlotHits(c, caches[1], cached_params)
    THEN [ret |-> c.inst[caches[1]].val, computed |-> 0, cache |-> c]
    ELSE LET val == Compute(fn, cached_params)
         IN  [ret |-> val, computed |-> 1,
              cache |-> WriteSlot(c, caches[1],
                                  [has |-> TRUE, key |-> cached_params, val |-> val])]

\* caches: the slot names in the order the caller lists them
get_conds_with_caching(c, fn, cached_params, caches) ==
    IF \E j \in 1..Len(caches) : SlotHits(c, caches[j], cached_params)
    THEN LET j == CHOOSE x \in 1..Len(caches) :
                    /\ SlotHits(c, caches[x], cached_params)
                    /\ \A y \in 1..(x - 1) : ~SlotHits(c, caches[y], cached_params)
         IN  [ret |-> c.inst[caches[j]].val, computed |-> 0, cache |-> c]
    ELSE LET val == Compute(fn, cached_params)
         IN  [ret |-> val, computed |-> 1,
              cache |-> WriteSlot(c, caches[1],
                                  [has |-> TRUE, key |-> cached_params, val |-> val])]

get_conds_with_caching_raises_key_first(c, fn, cached_params, caches) ==
    IF \E j \in 1..Len(caches) : SlotHits(c, caches[j], cached_params)
    THEN [cache |-> c, exc |-> "none"]
    ELSE [cache |-> WriteSlot(c, caches[1],
                              [c.inst[caches[1]] EXCEPT !.has = TRUE,
                                                        !.key = cached_params]),
          exc |-> "Exception"]

\* the same call when function(...) raises: "cache[1] = function(...)" is
\* left by the exception before either element of the slot is assigned; on a
\* hit the function is not called
get_conds_with_caching_raises(c, fn, cached_params, caches) ==
    IF \E j \in 1..Len(caches) : SlotHits(c, caches[j], cached_params)
    THEN [cache |-> c, exc |-> "none"]
    ELSE [cache |-> c, exc |-> "Exception"]

(***************************************************************************)
(* setup_conds and calculate_hr_conds.  Each returns the request, the      *)
(* cache and the number of times the compute function ran.                 *)
(***************************************************************************)
\* sd_samplers.find_sampler_config(name).options.get("second_order")
SecondOrderSamplers == {"Heun", "DPM2"}

RunParams(q, o, prompts, extra_network_data) ==
    CachedParams(prompts, q.steps * q.step_multiplier, o.CLIP_stop_at_last_layers,
                 o.sd_checkpoint_info, extra_network_data,
                 o.sdxl_crop_left, o.sdxl_crop_top, q.width, q.height)

base_setup_conds(q, o, c) ==
    LET q1 == [q EXCEPT !.step_multiplier =
                   IF q.sampler_name.s \in SecondOrderSamplers THEN 2 ELSE 1]
        r1 == get_conds_with_caching(c, "get_learned_conditioning",
                  RunParams(q1, o, q1.negative_prompts, q1.extra_network_data),
                  <<"cached_uc">>)
        r2 == get_conds_with_caching(r1.cache, "get_multicond_learned_conditioning",
                  RunParams(q1, o, q1.prompts, q1.extra_network_data),
                  <<"cached_c">>)
    IN  [p |-> [q1 EXCEPT !.uc = r1.ret, !.c = r2.ret],
         cache |-> r2.cache,
         computed |-> r1.computed + r2.computed]

calculate_hr_conds_base_first(q, o, c) ==
    IF q.hr_c # NoTensor THEN [p |-> q, cache |-> c, computed |-> 0]
    ELSE
      LET r1 == get_conds_with_caching(c, "get_learned_conditioning",
                    RunParams(q, o, q.hr_negative_prompts, q.hr_extra_network_data),
                    <<"cached_uc", "cached_hr_uc">>)
          r2 == get_conds_with_caching(r1.cache, "get_multicond_learned_conditioning",
                    RunParams(q, o, q.hr_prompts, q.hr_extra_network_data),
                    <<"cached_c", "cached_hr_c">>)
      IN  [p |-> [q EXCEPT !.hr_uc = r1.ret, !.hr_c = r2.ret],
           cache |-> r2.cache,
           computed |-> r1.computed + r2.computed]

calculate_hr_conds(q, o, c) ==
    IF q.hr_c # NoTensor THEN [p |-> q, cache |-> c, computed |-> 0]
    ELSE
      LET r1 == get_conds_with_caching(c, "get_learned_conditioning",
                    RunParams(q, o, q.hr_negative_prompts, q.hr_extra_network_data),
                    <<"cached_hr_uc", "cached_uc">>)
          r2 == get_conds_with_caching(r1.cache, "get_multicond_learned_conditioning",
                    RunParams(q, o, q.hr_prompts, q.hr_extra_network_data),
                    <<"cached_hr_c", "cached_c">>)
      IN  [p |-> [q EXCEPT !.hr_uc = r1.ret, !.hr_c = r2.ret],
           cache |-> r2.cache,
           computed |-> r1.computed + r2.computed]

\* lowvram.is_enabled(shared.sd_model) is false: the model is kept on the device
setup_conds(q, o, c) ==
    LET b == base_setup_conds(q, o, c)
        q1 == [b.p EXCEPT !.hr_uc = NoTensor, !.hr_c = NoTensor]
    IN  IF q.kind # "txt2img" THEN b
        ELSE IF q1.enable_hr /\ o.hires_fix_use_firstpass_conds
        THEN LET h == calculate_hr_conds(q1, o, b.cache)
             IN  [p |-> h.p, cache |-> h.cache, computed |-> b.computed + h.computed]
        ELSE [p |-> q1, cache |-> b.cache, computed |-> b.computed]

\* StableDiffusionProcessing.close and the Txt2Img override: the class
\* attributes are rebound to new lists, the request keeps the old ones
close_clears_always(q, o, c) ==
    [p |-> [q EXCEPT !.sampler = NoneV, !.c = NoTensor, !.uc = NoTensor,
                     !.hr_c = IF q.kind = "txt2img" THEN NoTensor ELSE @,
                     !.hr_uc = IF q.kind = "txt2img" THEN NoTensor ELSE @],
     cache |-> [c EXCEPT !.cls = [s \in SlotNames |->
                                   IF s \in {"cached_c", "cached_uc"}
                                      \/ q.kind = "txt2img"
                                   THEN EmptySlot ELSE c.cls[s]],
                         !.aliased = [s \in SlotNames |->
                                   IF s \in {"cached_c", "cached_uc"}
                                      \/ q.kind = "txt2img"
                                   THEN FALSE ELSE c.aliased[s]]]]

close(q, o, c) ==
    [p |-> [q EXCEPT !.sampler = NoneV, !.c = NoTensor, !.uc = NoTensor,
                     !.hr_c = IF q.kind = "txt2img" THEN NoTensor ELSE @,
                     !.hr_uc = IF q.kind = "txt2img" THEN NoTensor ELSE @],
     cache |->
       IF o.experimental_persistent_cond_cache THEN c
       ELSE [c EXCEPT !.cls = [s \in SlotNames |->
                                 IF s \in {"cached_c", "cached_uc"}
                                    \/ q.kind = "txt2img"
                                 THEN EmptySlot ELSE c.cls[s]],
                      !.aliased = [s \in SlotNames |->
                                 IF s \in {"cached_c", "cached_uc"}
                                    \/ q.kind = "txt2img"
                                 THEN FALSE ELSE c.aliased[s]]]]

\* __init__: self.cached_c = StableDiffusionProcessing.cached_c, ...
\* (an img2img request has no hires slots; they are held as empty)
BindCaches(kind, c) ==
    [c EXCEPT !.inst = [s \in SlotNames |->
                          IF s \in {"cached_c", "cached_uc"} \/ kind = "txt2img"
                          THEN c.cls[s] ELSE EmptySlot],
              !.aliased = [s \in SlotNames |->
                          s \in {"cached_c", "cached_uc"} \/ kind = "txt2img"]]

(***************************************************************************)
(* StableDiffusionProcessingTxt2Img.init                                   *)
(***************************************************************************)
\* shared.latent_upscale_modes (keys) and shared.sd_upscalers (names)
LatentUpscaleModes == {"Latent", "Latent (nearest)"}
SdUpscalers == {"None", "Lanczos", "ESRGAN_4x"}

\* math.ceil(scale * a / 64) * 64 with scale = sqrt(512 * 512 / (a * b)):
\* the least m with m >= 8 * sqrt(a / b), i.e. m * m * b >= 64 * a
OldFirstPass(a, b) ==
    64 * (CHOOSE m \in 0..(8 * a) :
            /\ m * m * b >= 64 * a
            /\ \A k \in 0..(m - 1) : k * k * b < 64 * a)

old_hires_fix_first_pass_dimensions(width, height) ==
    <<OldFirstPass(width, height), OldFirstPass(height, width)>>

\* tuple(x) of a prompt argument; a str is taken as one unit
PromptTuple(pr) == IF pr.isList THEN <<"list", pr.l>> ELSE <<"str", <<pr.s>>>>
PromptValue(pr) == IF pr.isList THEN ListV(pr.l) ELSE StrV(pr.s)

\* the first part of init: the three prompt/sampler keys
InitHiresKeys(q) ==
    LET e1 == IF q.hr_sampler_name.t # "none" /\ q.hr_sampler_name # q.sampler_name
              THEN DictSet(q.extra_generation_params, "Hires sampler",
                           q.hr_sampler_name)
              ELSE q.extra_generation_params
        e2 == IF PromptTuple(q.hr_prompt) # PromptTuple(q.prompt)
              THEN DictSet(e1, "Hires prompt", PromptValue(q.hr_prompt))
              ELSE e1
        e3 == IF PromptTuple(q.hr_negative_prompt) # PromptTuple(q.negative_prompt)
              THEN DictSet(e2, "Hires negative prompt",
                           PromptValue(q.hr_negative_prompt))
              ELSE e2
    IN  [q EXCEPT !.extra_generation_params = e3]

InitOldHires(q, o) ==
    IF o.use_old_hires_fix_width_height
       /\ q.applied_old_hires_behavior_to # <<q.width, q.height>>
    THEN LET d == old_hires_fix_first_pass_dimensions(q.width, q.height)
         IN  [q EXCEPT !.hr_resize_x = q.width, !.hr_resize_y = q.height,
                       !.hr_upscale_to_x = q.width, !.hr_upscale_to_y = q.height,
                       !.width = d[1], !.height = d[2],
                       !.applied_old_hires_behavior_to = d]
    ELSE q

\* the derivation with the aspect ratios compared the other way round
InitHiresTarget_fits_inside(q) ==
    IF q.hr_resize_x = 0 /\ q.hr_resize_y = 0
    THEN [q EXCEPT !.extra_generation_params =
                       DictSet(@, "Hires upscale", StrV(q.hr_scale.text)),
                   !.hr_upscale_to_x = (q.width * q.hr_scale.x4) \div 4,
                   !.hr_upscale_to_y = (q.height * q.hr_scale.x4) \div 4]
    ELSE
      LET q1 == [q EXCEPT !.extra_generation_params =
                     DictSet(@, "Hires resize",
                             StrV(SizeText(q.hr_resize_x, q.hr_resize_y)))]
      IN  IF q.hr_resize_y = 0
          THEN [q1 EXCEPT !.hr_upscale_to_x = q.hr_resize_x,
                          !.hr_upscale_to_y = (q.hr_resize_x * q.height) \div q.width]
          ELSE IF q.hr_resize_x = 0
          THEN [q1 EXCEPT !.hr_upscale_to_x = (q.hr_resize_y * q.width) \div q.height,
                          !.hr_upscale_to_y = q.hr_resize_y]
          ELSE
            LET q2 == IF q.width * q.hr_resize_y > q.hr_resize_x * q.height
                      THEN [q1 EXCEPT
                              !.hr_upscale_to_x = q.hr_resize_x,
                              !.hr_upscale_to_y =
                                  (q.hr_resize_x * q.height) \div q.width]
                      ELSE [q1 EXCEPT
                              !.hr_upscale_to_x =
                                  (q.hr_resize_y * q.width) \div q.height,
                              !.hr_upscale_to_y = q.hr_resize_y]
            IN  [q2 EXCEPT
                   !.truncate_x = (q2.hr_upscale_to_x - q.hr_resize_x) \div opt_f,
                   !.truncate_y = (q2.hr_upscale_to_y - q.hr_resize_y) \div opt_f]

\* the derivation of hr_upscale_to_x/y and truncate_x/y.
\* int(width * hr_scale): hr_scale is held in quarters (x4)
InitHiresTarget(q) ==
    IF q.hr_resize_x = 0 /\ q.hr_resize_y = 0
    THEN [q EXCEPT !.extra_generation_params =
                       DictSet(@, "Hires upscale", StrV(q.hr_scale.text)),
                   !.hr_upscale_to_x = (q.width * q.hr_scale.x4) \div 4,
                   !.hr_upscale_to_y = (q.height * q.hr_scale.x4) \div 4]
    ELSE
      LET q1 == [q EXCEPT !.extra_generation_params =
                     DictSet(@, "Hires resize",
                             StrV(SizeText(q.hr_resize_x, q.hr_resize_y)))]
      IN  IF q.hr_resize_y = 0
          THEN [q1 EXCEPT !.hr_upscale_to_x = q.hr_resize_x,
                          !.hr_upscale_to_y = (q.hr_resize_x * q.height) \div q.width]
          ELSE IF q.hr_resize_x = 0
          THEN [q1 EXCEPT !.hr_upscale_to_x = (q.hr_resize_y * q.width) \div q.height,
                          !.hr_upscale_to_y = q.hr_resize_y]
          ELSE
            \* src_ratio < dst_ratio, cross-multiplied (all four are positive)
            LET q2 == IF q.width * q.hr_resize_y < q.hr_resize_x * q.height
                      THEN [q1 EXCEPT
                              !.hr_upscale_to_x = q.hr_resize_x,
                              !.hr_upscale_to_y =
                                  (q.hr_resize_x * q.height) \div q.width]
                      ELSE [q1 EXCEPT
                              !.hr_upscale_to_x =
                                  (q.hr_resize_y * q.width) \div q.height,
                              !.hr_upscale_to_y = q.hr_resize_y]
            IN  [q2 EXCEPT
                   !.truncate_x = (q2.hr_upscale_to_x - q.hr_resize_x) \div opt_f,
                   !.truncate_y = (q2.hr_upscale_to_y - q.hr_resize_y) \div opt_f]

\* "special case: the user has chosen to do nothing"
InitHiresNoop_keeps_keys(q) ==
    [q EXCEPT !.enable_hr = FALSE, !.denoising_strength = NoneV]

InitHiresNoop_keeps_enabled(q) ==
    [q EXCEPT !.denoising_strength = NoneV,
              !.extra_generation_params =
                  DictPop(DictPop(@, "Hires upscale"), "Hires resize")]

InitHiresNoop(q) ==
    [q EXCEPT !.enable_hr = FALSE,
              !.denoising_strength = NoneV,
              !.extra_generation_params =
                  DictPop(DictPop(@, "Hires upscale"), "Hires resize")]

InitHiresJobs_always_doubles(q, st) ==
    [p |-> q,
     state |-> [st EXCEPT !.job_count = 2 * (IF st.job_count = -1 THEN q.n_iter
                                             ELSE st.job_count),
                          !.processing_has_refined_job_count = TRUE]]

InitHiresJobs(q, st) ==
    LET st1 == IF ~st.processing_has_refined_job_count
               THEN [st EXCEPT !.job_count =
                                  2 * (IF st.job_count = -1 THEN q.n_iter
                                       ELSE st.job_count),
                               !.processing_has_refined_job_count = TRUE]
               ELSE st
        e1 == IF q.hr_second_pass_steps # 0
              THEN DictSet(q.extra_generation_params, "Hires steps",
                           IntV(q.hr_second_pass_steps))
              ELSE q.extra_generation_params
        e2 == IF q.hr_upscaler.t # "none"
              THEN DictSet(e1, "Hires upscaler", q.hr_upscaler)
              ELSE e1
    IN  [p |-> [q EXCEPT !.extra_generation_params = e2], state |-> st1]

Txt2ImgInit(q, st, o) ==
    IF ~q.enable_hr THEN [p |-> q, state |-> st, exc |-> "none"]
    ELSE
      LET q3 == InitHiresTarget(InitOldHires(InitHiresKeys(q), o))
      IN  IF q3.hr_upscale_to_x = q3.width /\ q3.hr_upscale_to_y = q3.height
          THEN [p |-> InitHiresNoop(q3), state |-> st, exc |-> "none"]
          ELSE LET j == InitHiresJobs(q3, st)
               IN  [p |-> j.p, state |-> j.state, exc |-> "none"]

(***************************************************************************)
(* StableDiffusionProcessingImg2Img.init: the sampler and the batch of     *)
(* source images (no mask).                                                *)
(***************************************************************************)
Img2ImgInit(q, st, o) ==
    LET q1 == [q EXCEPT !.sampler = q.sampler_name]
        k == Len(q.init_images)
    IN  IF k = 1 THEN [p |-> q1, state |-> st, exc |-> "none"]
        ELSE IF k = 0
        \* "self.batch_size = len(imgs)" with no image, then the encoder is
        \* given the empty array np.array([]) and raises
        THEN [p |-> [q1 EXCEPT !.batch_size = 0], state |-> st, exc |-> "RuntimeError"]
        ELSE IF k <= q.batch_size
        THEN [p |-> [q1 EXCEPT !.batch_size = k], state |-> st, exc |-> "none"]
        ELSE [p |-> q1, state |-> st, exc |-> "RuntimeError"]

\* p.init(p.all_prompts, p.all_seeds, p.all_subseeds)
init(q, st, o) ==
    IF q.kind = "txt2img" THEN Txt2ImgInit(q, st, o) ELSE Img2ImgInit(q, st, o)

(***************************************************************************)
(* Requests and options.                                                   *)
(***************************************************************************)
DefaultOpts ==
    [use_old_hires_fix_width_height |-> FALSE,
     add_version_to_infotext |-> TRUE,
     add_model_hash_to_info |-> TRUE,
     add_model_name_to_info |-> TRUE,
     CLIP_stop_at_last_layers |-> 1,
     sd_checkpoint_info |-> "v1-5-pruned-emaonly",
     sdxl_crop_left |-> 0,
     sdxl_crop_top |-> 0,
     hires_fix_use_firstpass_conds |-> FALSE,
     experimental_persistent_cond_cache |-> FALSE]

NoRng == [shape |-> <<>>, seeds |-> <<>>, subseeds |-> <<>>, subseed_strength |-> 0,
          seed_resize_from_h |-> 0, seed_resize_from_w |-> 0]

\* rng.ImageRNG(shape, seeds, subseeds=..., subseed_strength=..., ...)
ImageRNG(shape, seeds, subseeds, subseed_strength, resize_h, resize_w) ==
    [shape |-> shape, seeds |-> seeds, subseeds |-> subseeds,
     subseed_strength |-> subseed_strength,
     seed_resize_from_h |-> resize_h, seed_resize_from_w |-> resize_w]

\* the request as __init__ leaves it (StableDiffusionProcessing and both
\* subclasses; a field a subclass does not have keeps its default)
DefaultRequest ==
    [kind |-> "txt2img",
     prompt |-> PScalar("a cat"), negative_prompt |-> PScalar(""),
     seed |-> IntV(42), subseed |-> IntV(7), subseed_strength |-> 0,
     seed_resize_from_h |-> -1, seed_resize_from_w |-> -1,
     sampler_name |-> StrV("Euler a"),
     batch_size |-> 1, n_iter |-> 1, steps |-> 20, cfg_scale |-> IntV(7),
     width |-> 512, height |-> 512, tiling |-> FALSE,
     denoising_strength |-> StrV("0.75"),
     extra_generation_params |-> <<>>,
     disable_extra_networks |-> FALSE, scripts |-> FALSE,
     override_settings |-> <<>>, override_settings_restore_afterwards |-> TRUE,
     sd_model_hash |-> StrV("6ce0161689"),
     sd_model_name |-> StrV("v1-5-pruned-emaonly"),
     all_prompts |-> <<>>, all_negative_prompts |-> <<>>,
     all_seeds |-> <<>>, all_subseeds |-> <<>>,
     main_prompt |-> "", main_negative_prompt |-> "",
     iteration |-> 0, is_hr_pass |-> FALSE, sampler |-> NoneV,
     prompts |-> <<>>, negative_prompts |-> <<>>,
     extra_network_data |-> "", seeds |-> <<>>, subseeds |-> <<>>,
     step_multiplier |-> 1, uc |-> NoTensor, c |-> NoTensor, rng |-> NoRng,
     enable_hr |-> FALSE, hr_scale |-> [x4 |-> 8, text |-> "2.0"],
     hr_upscaler |-> NoneV, hr_second_pass_steps |-> 0,
     hr_resize_x |-> 0, hr_resize_y |-> 0,
     hr_upscale_to_x |-> 0, hr_upscale_to_y |-> 0,
     hr_sampler_name |-> NoneV,
     hr_prompt |-> PScalar(""), hr_negative_prompt |-> PScalar(""),
     all_hr_prompts |-> <<>>, all_hr_negative_prompts |-> <<>>,
     truncate_x |-> 0, truncate_y |-> 0,
     applied_old_hires_behavior_to |-> <<>>,
     hr_prompts |-> <<>>, hr_negative_prompts |-> <<>>,
     hr_extra_network_data |-> "", hr_c |-> NoTensor, hr_uc |-> NoTensor,
     init_images |-> <<>>]

\* Txt2Img.__init__: hr_upscale_to_x/y start as hr_resize_x/y
Txt2ImgRequest(q) ==
    [q EXCEPT !.kind = "txt2img",
              !.hr_upscale_to_x = q.hr_resize_x,
              !.hr_upscale_to_y = q.hr_resize_y]

Img2ImgRequest(q) == [q EXCEPT !.kind = "img2img"]

\* count distinct prompts, count distinct source images
PromptNames(count) == [j \in 1..count |-> "cat " \o ToString(j)]
ImageNames(count) == [j \in 1..count |-> "img" \o ToString(j)]

SeedInputs == {NoneV, StrV(""), IntV(-1), IntV(0), IntV(42)}
SubseedInputs == {IntV(-1), IntV(7)}
Strengths == {0, 50}

\* text-to-image without hires: the seed, the prompt form, the batch geometry
SeedFamily ==
    { [p |-> Txt2ImgRequest(
                [DefaultRequest EXCEPT !.seed = sv, !.subseed = ssv,
                                       !.subseed_strength = st,
                                       !.batch_size = bs, !.n_iter = ni,
                                       !.prompt = pf[1],
                                       !.negative_prompt = pf[2]]),
       opts |-> DefaultOpts] :
        sv \in SeedInputs, ssv \in SubseedInputs, st \in Strengths,
        bs \in 1..MaxBatch, ni \in 1..MaxIter,
        pf \in {<<PScalar("a cat"), PScalar("")>>,
                <<PScalar("a cat"), PScalar("blurry")>>} }

\* text-to-image with per-image prompt lists, of every length up to one past
\* the images the run asks for
ListFamily ==
    { [p |-> Txt2ImgRequest(
                [DefaultRequest EXCEPT
                   !.batch_size = bs, !.n_iter = ni,
                   !.prompt = PList(PromptNames(len)),
                   !.negative_prompt =
                       IF nl THEN PList([j \in 1..len |-> IF j % 2 = 1 THEN "blurry"
                                                         ELSE ""])
                       ELSE PScalar("blurry")]),
       opts |-> DefaultOpts] :
        bs \in 1..MaxBatch, ni \in 1..MaxIter,
        len \in 1..(MaxBatch * MaxIter + 1), nl \in BOOLEAN }

HiresDims == {<<512, 512>>, <<512, 768>>}
HiresTargets ==
    {<<0, 0, 4, "1.0">>, <<0, 0, 6, "1.5">>, <<0, 0, 8, "2.0">>,
     <<512, 512, 8, "2.0">>, <<512, 768, 8, "2.0">>, <<1024, 0, 8, "2.0">>,
     <<512, 0, 8, "2.0">>, <<0, 768, 8, "2.0">>, <<0, 512, 8, "2.0">>,
     <<1024, 1024, 8, "2.0">>, <<768, 512, 8, "2.0">>, <<256, 512, 8, "2.0">>,
     <<504, 300, 8, "2.0">>}
HiresUpscalers == {NoneV, StrV("Latent"), StrV("ESRGAN_4x"), StrV("R-ESRGAN 9x")}

\* text-to-image with hires enabled: base size, requested target, upscaler
HiresFamily ==
    { [p |-> Txt2ImgRequest(
                [DefaultRequest EXCEPT
                   !.enable_hr = TRUE, !.n_iter = ni,
                   !.width = d[1], !.height = d[2],
                   !.hr_resize_x = t[1], !.hr_resize_y = t[2],
                   !.hr_scale = [x4 |-> t[3], text |-> t[4]],
                   !.hr_upscaler = up]),
       opts |-> [DefaultOpts EXCEPT !.use_old_hires_fix_width_height = old]] :
        d \in HiresDims, t \in HiresTargets, up \in HiresUpscalers,
        ni \in 1..MaxIter, old \in BOOLEAN }

\* text-to-image with hires enabled: samplers, hires prompts, hires steps
HiresSamplerFamily ==
    { [p |-> Txt2ImgRequest(
                [DefaultRequest EXCEPT
                   !.enable_hr = TRUE, !.n_iter = MaxIter,
                   !.hr_scale = [x4 |-> sc[1], text |-> sc[2]],
                   !.sampler_name = sn, !.hr_sampler_name = hsn,
                   !.hr_prompt = PScalar(hp[1]),
                   !.hr_negative_prompt = PScalar(hp[2]),
                   !.hr_second_pass_steps = hp[3],
                   !.hr_upscaler = StrV("Latent")]),
       opts |-> [DefaultOpts EXCEPT !.hires_fix_use_firstpass_conds = fp]] :
        sc \in {<<4, "1.0">>, <<8, "2.0">>},
        sn \in {StrV("Euler a"), StrV("PLMS"), StrV("UniPC"), StrV("Heun")},
        hsn \in {NoneV, StrV("DDIM"), StrV("Euler a"), StrV("PLMS")},
        hp \in {<<"", "", 0>>, <<"a cat", "", 10>>, <<"a detailed cat", "lowres", 0>>},
        fp \in BOOLEAN }

\* image-to-image: the number of source images against the batch size
Img2ImgFamily ==
    { [p |-> Img2ImgRequest(
                [DefaultRequest EXCEPT
                   !.seed = sv, !.batch_size = bs, !.n_iter = ni,
                   !.init_images = ImageNames(k)]),
       opts |-> DefaultOpts] :
        sv \in {IntV(42), IntV(-1)}, bs \in 1..MaxBatch, ni \in 1..MaxIter,
        k \in 0..(MaxBatch + 1) }

\* requests with a script runner attached (p.scripts is not None) or with the
\* extra networks disabled
HookFamily ==
    { [p |-> Txt2ImgRequest(
                [DefaultRequest EXCEPT
                   !.batch_size = bs, !.n_iter = ni, !.scripts = sc,
                   !.disable_extra_networks = de]),
       opts |-> DefaultOpts] :
        bs \in {1, MaxBatch}, ni \in {1, MaxIter}, sc \in BOOLEAN, de \in BOOLEAN }

\* shared.restricted_opts
RestrictedOpts == {"outdir_samples", "samples_filename_pattern"}

\* __init__: the override settings given, less the restricted keys
OverrideSettings(given) == SelectSeq(given, LAMBDA e : e.k \notin RestrictedOpts)

\* requests that override the clip skip option
OverrideFamily ==
    { [p |-> Txt2ImgRequest(
                [DefaultRequest EXCEPT
                   !.override_settings =
                       OverrideSettings(<<[k |-> "outdir_samples", v |-> 0],
                                          [k |-> "CLIP_stop_at_last_layers", v |-> 2]>>),
                   !.override_settings_restore_afterwards = ra]),
       opts |-> DefaultOpts] : ra \in BOOLEAN }

\* a list of one prompt for a run of more than two iterations of one image
ShortListFamily ==
    { [p |-> Txt2ImgRequest(
                [DefaultRequest EXCEPT
                   !.batch_size = 1, !.n_iter = MaxIter + 1,
                   !.prompt = PList(PromptNames(1)), !.scripts = sc]),
       opts |-> DefaultOpts] : sc \in BOOLEAN }

\* prompts and hires prompts with and without the tag of an extra network
NetworkFamily ==
    { [p |-> Txt2ImgRequest(
                [DefaultRequest EXCEPT
                   !.batch_size = 1, !.n_iter = MaxIter,
                   !.prompt = pr, !.enable_hr = hr[1], !.hr_prompt = PScalar(hr[2]),
                   !.hr_upscaler = StrV("Latent"),
                   !.hr_scale = [x4 |-> 8, text |-> "2.0"],
                   !.disable_extra_networks = de]),
       opts |-> DefaultOpts] :
        pr \in {PScalar("cat"), PScalar("cat <lora:x>"),
                PList([j \in 1..MaxIter |-> IF j = 1 THEN "cat <lora:x>" ELSE "cat"])},
        hr \in {<<FALSE, "">>, <<TRUE, "">>, <<TRUE, "cat <lora:x>">>},
        de \in BOOLEAN }

Requests ==
    SeedFamily \cup ListFamily \cup HiresFamily \cup HiresSamplerFamily
        \cup Img2ImgFamily \cup HookFamily \cup OverrideFamily
        \cup ShortListFamily \cup NetworkFamily

(***************************************************************************)
(* Processed.__init__                                                      *)
(***************************************************************************)
NoRes == [made |-> FALSE, images |-> <<>>, seed |-> NoneV, subseed |-> NoneV,
          info |-> <<>>, infotexts |-> <<>>, all_prompts |-> <<>>,
          all_negative_prompts |-> <<>>, all_seeds |-> <<>>,
          all_subseeds |-> <<>>, batch_size |-> 0,
          extra_generation_params |-> <<>>]

\* info is held as a one-element list so that it has one shape
Processed(q, images_list, seed, info, subseed, infotexts_) ==
    [made |-> TRUE, images |-> images_list, seed |-> seed, subseed |-> subseed,
     info |-> <<info>>,
     infotexts |-> IF infotexts_ # <<>> THEN infotexts_ ELSE <<info>>,
     all_prompts |-> IF q.all_prompts # <<>> THEN q.all_prompts
                     ELSE <<IF q.prompt.isList THEN q.prompt.l[1] ELSE q.prompt.s>>,
     all_negative_prompts |->
         IF q.all_negative_prompts # <<>> THEN q.all_negative_prompts
         ELSE <<IF q.negative_prompt.isList THEN q.negative_prompt.l[1]
                ELSE q.negative_prompt.s>>,
     all_seeds |-> IF q.all_seeds # <<>> THEN q.all_seeds ELSE <<seed>>,
     all_subseeds |-> IF q.all_subseeds # <<>> THEN q.all_subseeds ELSE <<subseed>>,
     batch_size |-> q.batch_size,
     extra_generation_params |-> q.extra_generation_params]

NoSamples == [made |-> FALSE, shape |-> <<>>, seeds |-> <<>>, sampler |-> NoneV,
              hires |-> FALSE, hr_sampler |-> NoneV, upscaled |-> <<>>,
              window |-> <<>>]

(***************************************************************************)
(* The hooks of the script runner and the phases of the loop, as the       *)
(* events a run appends to its trace: e the hook or phase, n the           *)
(* iteration (-1 for the hooks of the whole request), i the image.         *)
(***************************************************************************)
Ev(e, k, i) == [e |-> e, n |-> k, i |-> i]

\* process_images: before_process; process_images_inner: process
RequestHooks(q) ==
    IF q.scripts THEN <<Ev("before_process", -1, -1), Ev("process", -1, -1)>> ELSE <<>>

\* before_process_batch, ahead of the check for an empty slice
BeforeBatchHooks(q, k) ==
    IF q.scripts THEN <<Ev("before_process_batch", k, -1)>> ELSE <<>>

IterationTopHooks_conds_first(q, k) ==
    (IF q.disable_extra_networks THEN <<>> ELSE <<Ev("activate", k, -1)>>)
        \o <<Ev("setup_conds", k, -1)>>
        \o (IF q.scripts THEN <<Ev("process_batch", k, -1)>> ELSE <<>>)

\* extra_networks.activate, process_batch, setup_conds
IterationTopHooks(q, k) ==
    (IF q.disable_extra_networks THEN <<>> ELSE <<Ev("activate", k, -1)>>)
        \o (IF q.scripts THEN <<Ev("process_batch", k, -1)>> ELSE <<>>)
        \o <<Ev("setup_conds", k, -1)>>

\* decode_latent_batch, postprocess_batch, postprocess_batch_list, then
\* postprocess_image for each of the count images in turn
PostprocessHooks(q, k, count) ==
    <<Ev("decode", k, -1)>>
        \o (IF q.scripts
            THEN <<Ev("postprocess_batch", k, -1), Ev("postprocess_batch_list", k, -1)>>
                     \o [j \in 1..count |-> Ev("postprocess_image", k, j - 1)]
            ELSE <<>>)

\* postprocess, on the result
FinalHooks(q) == IF q.scripts THEN <<Ev("postprocess", -1, -1)>> ELSE <<>>

\* extra_networks.parse_prompts(prompts): the prompts without their network
\* tags, and the networks the tags of the first prompt name ("" for none)
NetworkTags == [tagged |-> {"cat <lora:x>"}, plain |-> "cat", data |-> "lora:x"]

parse_prompts(prompts) ==
    [prompts |-> [j \in 1..Len(prompts) |->
                     IF prompts[j] \in NetworkTags.tagged THEN NetworkTags.plain
                     ELSE prompts[j]],
     data |-> IF Len(prompts) > 0 /\ prompts[1] \in NetworkTags.tagged
              THEN NetworkTags.data ELSE ""]

\* extra_networks.activate(p, data), in the loop and in the hires pass
ActivateCalls(q, which) == IF q.disable_extra_networks THEN <<>> ELSE <<which>>

\* "if not p.disable_extra_networks and p.extra_network_data: deactivate"
DeactivateCalls(q) ==
    IF ~q.disable_extra_networks /\ q.extra_network_data # ""
    THEN <<"deactivate">> ELSE <<>>

\* the history of a run that has not started
NoHist(q) == [polls |-> 0, set_after |-> -1, p0 |-> q, trace |-> <<>>, nets |-> <<>>]

(***************************************************************************)
(* process_images, step by step.  The steps end where the run waits on an  *)
(* external call (the sampler), which is where the UI thread can set the   *)
(* flags of shared.state.                                                  *)
(***************************************************************************)

\* process_images_inner up to the loop: seeds, prompts, init, job count
ProcessImagesSetup ==
    /\ pc = "start"
    /\ \E r1 \in RandomDraws, r2 \in RandomDraws :
         LET seed == get_fixed_seed(p.seed, r1)
             subseed == get_fixed_seed(p.subseed, r2)
             q1 == setup_prompts(p)
             q2 == [q1 EXCEPT
                      !.all_seeds = ExpandSeeds(seed, q1.subseed_strength,
                                                Len(q1.all_prompts)),
                      !.all_subseeds = ExpandSubseeds(subseed, Len(q1.all_prompts))]
             i == init(q2, state, opts)
         IN  /\ p' = i.p
             /\ exc' = i.exc
             /\ state' = IF i.exc = "none" /\ i.state.job_count = -1
                         THEN [i.state EXCEPT !.job_count = i.p.n_iter]
                         ELSE i.state
             /\ pc' = IF i.exc # "none" THEN "raised"
                      ELSE IF i.p.n_iter > 0 THEN "loop" ELSE "finalize"
    /\ hist' = [hist EXCEPT !.trace = @ \o RequestHooks(p)]
    /\ n' = 0
    /\ infotexts' = <<>>
    /\ output_images' = <<>>
    /\ UNCHANGED <<opts, samples, res, cache, call, cpc, sd, fmt, dec, inp, jobs, ad>>

\* "if state.interrupted: break"
InterruptBreaks_never(st) == FALSE

InterruptBreaks(st) == st.interrupted

\* the top of an iteration: flags, slices, rng, extra networks, conditioning
IterationTop ==
    /\ pc = "loop"
    /\ state' = [state EXCEPT !.skipped = FALSE]
    /\ LET lo == n * p.batch_size
           hi == (n + 1) * p.batch_size
           q1 == [p EXCEPT
                    !.iteration = n,
                    !.prompts = Slice(p.all_prompts, lo, hi),
                    !.negative_prompts = Slice(p.all_negative_prompts, lo, hi),
                    !.seeds = Slice(p.all_seeds, lo, hi),
                    !.subseeds = Slice(p.all_subseeds, lo, hi)]
           q2 == [q1 EXCEPT
                    !.rng = ImageRNG(<<opt_C, p.height \div opt_f, p.width \div opt_f>>,
                                     q1.seeds, q1.subseeds, p.subseed_strength,
                                     p.seed_resize_from_h, p.seed_resize_from_w)]
           \* parse_extra_network_prompts
           pp == parse_prompts(q2.prompts)
           hp == parse_prompts(Slice(q2.all_hr_prompts, lo, hi))
           q2n == [q2 EXCEPT !.prompts = pp.prompts, !.extra_network_data = pp.data]
           q3 == IF q2.kind = "txt2img" /\ q2.enable_hr
                 THEN [q2n EXCEPT
                         !.hr_prompts = hp.prompts,
                         !.hr_extra_network_data = hp.data,
                         !.hr_negative_prompts =
                             Slice(q2.all_hr_negative_prompts, lo, hi)]
                 ELSE q2n
           sc == setup_conds(q3, opts, cache)
       IN  IF InterruptBreaks(state)
           THEN /\ p' = [p EXCEPT !.iteration = n]
                /\ pc' = "finalize"
                /\ cache' = cache
                /\ hist' = [hist EXCEPT !.polls = @ + 1]
           ELSE IF Len(q2.prompts) = 0
           THEN /\ p' = q2
                /\ pc' = "finalize"
                /\ cache' = cache
                /\ hist' = [hist EXCEPT !.polls = @ + 1,
                                        !.trace = @ \o BeforeBatchHooks(p, n)]
           ELSE /\ p' = sc.p
                /\ pc' = "sample"
                /\ cache' = sc.cache
                /\ hist' = [hist EXCEPT !.polls = @ + 1,
                                        !.trace = @ \o BeforeBatchHooks(p, n)
                                                    \o IterationTopHooks(p, n),
                                        !.nets = @ \o ActivateCalls(p, "activate")]
    /\ UNCHANGED <<opts, n, infotexts, output_images, samples, res, exc, call, cpc, sd, fmt, dec, inp, jobs, ad>>

UpscalerMissing_never(q) == FALSE

\* Txt2Img.sample(): hires enabled and hr_upscaler neither a latent upscale
\* mode nor the name of an upscaler in shared.sd_upscalers
UpscalerMissing(q) ==
    /\ q.enable_hr
    /\ q.hr_upscaler.t # "none" /\ q.hr_upscaler.s \notin LatentUpscaleModes
    /\ q.hr_upscaler.s \notin SdUpscalers

\* sample(): the first pass (Txt2Img up to "if not self.enable_hr", Img2Img whole)
SampleBase ==
    /\ pc = "sample"
    /\ LET s1 == [made |-> TRUE, shape |-> p.rng.shape, seeds |-> p.rng.seeds,
                  sampler |-> p.sampler_name, hires |-> FALSE, hr_sampler |-> NoneV,
                  upscaled |-> <<>>, window |-> <<>>]
       IN  IF p.kind = "txt2img"
           THEN IF UpscalerMissing(p)
                THEN /\ exc' = "Exception"
                     /\ pc' = "raised"
                     /\ p' = [p EXCEPT !.sampler = p.sampler_name]
                     /\ samples' = samples
                ELSE /\ exc' = exc
                     /\ pc' = IF p.enable_hr THEN "hires" ELSE "decode"
                     /\ p' = [p EXCEPT !.sampler = p.sampler_name,
                                       !.is_hr_pass = p.enable_hr]
                     /\ samples' = s1
           ELSE /\ exc' = exc
                /\ pc' = "decode"
                /\ p' = p
                /\ samples' = s1
    /\ hist' = [hist EXCEPT !.trace = @ \o <<Ev("sample", n, -1)>>]
    /\ UNCHANGED <<state, opts, n, infotexts, output_images, res, cache, call,
                   cpc, sd, fmt, dec, inp, jobs, ad>>

HiresSamplerName_as_configured(q) ==
    IF Truthy(q.hr_sampler_name) THEN q.hr_sampler_name ELSE q.sampler_name

\* the sampler the second pass is created with
HiresSamplerName(q) ==
    IF q.sampler_name.s \in {"PLMS", "UniPC"} THEN StrV("DDIM")
    ELSE IF Truthy(q.hr_sampler_name) THEN q.hr_sampler_name
    ELSE q.sampler_name

\* the slice truncate // 2 : size - (truncate + 1) // 2 of one axis, as
\* <<first index kept, first index not kept>>
TruncateWindow_leading(size, truncate) == <<truncate, size>>

TruncateWindow(size, truncate) ==
    <<truncate \div 2, size - ((truncate + 1) \div 2)>>

\* Txt2Img.sample(): the second pass.  The latent after upscaling has
\* target // opt_f cells per axis (interpolate is given that size; the VAE
\* encoder of the resized image divides by opt_f, rounding down)
HiresNextJob_skipped(st) == st

\* "shared.state.nextjob()" after the upscale step of sample()
HiresNextJob(st) == [st EXCEPT !.job_no = @ + 1]

SampleHires ==
    /\ pc = "hires"
    /\ LET up_h == p.hr_upscale_to_y \div opt_f
           up_w == p.hr_upscale_to_x \div opt_f
           wy == TruncateWindow(up_h, p.truncate_y)
           wx == TruncateWindow(up_w, p.truncate_x)
           shape == <<opt_C, wy[2] - wy[1], wx[2] - wx[1]>>
           name == HiresSamplerName(p)
           q1 == [p EXCEPT !.sampler = name,
                           !.rng = ImageRNG(shape, p.seeds, p.subseeds,
                                            p.subseed_strength,
                                            p.seed_resize_from_h,
                                            p.seed_resize_from_w)]
           hc == calculate_hr_conds(q1, opts, cache)
       IN  /\ p' = [hc.p EXCEPT !.is_hr_pass = FALSE]
           /\ cache' = hc.cache
           /\ samples' = [samples EXCEPT !.shape = shape, !.hires = TRUE,
                                         !.hr_sampler = name,
                                         !.upscaled = <<up_h, up_w>>,
                                         !.window = <<wy, wx>>]
    /\ state' = HiresNextJob(state)
    /\ hist' = [hist EXCEPT !.nets = @ \o ActivateCalls(p, "hr_activate")]
    /\ pc' = "decode"
    /\ UNCHANGED <<opts, n, infotexts, output_images, res, exc, call, cpc, sd, fmt, dec, inp, jobs, ad>>

\* every image of the batch with the infotext of the first
RECURSIVE BatchImages_first_infotext(_, _, _, _)
BatchImages_first_infotext(q, o, smp, i) ==
    IF i >= Len(smp.seeds) THEN <<>>
    ELSE <<[iteration |-> q.iteration, index |-> i, seed |-> smp.seeds[i + 1],
            prompt |-> q.prompts[i + 1], hires |-> smp.hires,
            sampler |-> IF smp.hires THEN smp.hr_sampler ELSE smp.sampler,
            parameters |-> create_infotext(q, o, q.prompts, q.seeds, q.subseeds, 0,
                                           q.negative_prompts, FALSE)]>>
         \o BatchImages_first_infotext(q, o, smp, i + 1)

\* the images of one batch, each with its infotext
RECURSIVE BatchImages(_, _, _, _)
BatchImages(q, o, smp, i) ==
    IF i >= Len(smp.seeds) THEN <<>>
    ELSE <<[iteration |-> q.iteration, index |-> i, seed |-> smp.seeds[i + 1],
            prompt |-> q.prompts[i + 1], hires |-> smp.hires,
            sampler |-> IF smp.hires THEN smp.hr_sampler ELSE smp.sampler,
            parameters |-> create_infotext(q, o, q.prompts, q.seeds, q.subseeds, i,
                                           q.negative_prompts, FALSE)]>>
         \o BatchImages(q, o, smp, i + 1)

\* decode, the postprocess hooks, the per-image loop, state.nextjob()
DecodeAndPostprocess ==
    /\ pc = "decode"
    /\ LET imgs == BatchImages(p, opts, samples, 0)
       IN  /\ output_images' = output_images \o imgs
           /\ infotexts' = infotexts \o [j \in 1..Len(imgs) |-> imgs[j].parameters]
           /\ hist' = [hist EXCEPT !.trace = @ \o PostprocessHooks(p, n, Len(imgs))]
    /\ samples' = NoSamples
    /\ state' = [state EXCEPT !.job_no = @ + 1]
    /\ n' = n + 1
    /\ pc' = IF n + 1 < p.n_iter THEN "loop" ELSE "finalize"
    /\ UNCHANGED <<p, opts, res, exc, cache, call, cpc, sd, fmt, dec, inp, jobs, ad>>

\* after the loop: Processed(..., info=infotexts[0], ...)
Finalize_guarded ==
    /\ pc = "finalize"
    /\ res' = Processed(p, output_images, p.all_seeds[1],
                        IF infotexts = <<>> THEN NoneV ELSE infotexts[1],
                        p.all_subseeds[1], infotexts)
    /\ pc' = "done"
    /\ UNCHANGED <<p, state, opts, n, infotexts, output_images, samples, exc, hist,
                   cache, call, cpc, sd, fmt, dec, inp, jobs, ad>>

Finalize ==
    /\ pc = "finalize"
    /\ IF infotexts = <<>>
       THEN /\ exc' = "IndexError"
            /\ pc' = "raised"
            /\ res' = res
            /\ hist' = [hist EXCEPT !.nets = @ \o DeactivateCalls(p)]
       ELSE /\ res' = Processed(p, output_images, p.all_seeds[1], infotexts[1],
                                p.all_subseeds[1], infotexts)
            /\ pc' = "done"
            /\ exc' = exc
            /\ hist' = [hist EXCEPT !.trace = @ \o FinalHooks(p),
                                    !.nets = @ \o DeactivateCalls(p)]
    /\ UNCHANGED <<p, state, opts, n, infotexts, output_images, samples,
                   cache, call, cpc, sd, fmt, dec, inp, jobs, ad>>

\* the UI thread: shared.state.interrupt() and shared.state.skip()
Interrupt ==
    /\ pc \in {"start", "loop", "sample", "hires", "decode"}
    /\ ~state.interrupted
    /\ state' = [state EXCEPT !.interrupted = TRUE]
    /\ hist' = [hist EXCEPT !.set_after = hist.polls]
    /\ UNCHANGED <<pc, p, opts, n, infotexts, output_images, samples, res, exc,
                   cache, call, cpc, sd, fmt, dec, inp, jobs, ad>>

Skip ==
    /\ pc \in {"sample", "hires", "decode"}
    /\ ~state.skipped
    /\ state' = [state EXCEPT !.skipped = TRUE]
    /\ UNCHANGED <<pc, p, opts, n, infotexts, output_images, samples, res, exc, hist,
                   cache, call, cpc, sd, fmt, dec, inp, jobs, ad>>

InitState ==
    [interrupted |-> FALSE, skipped |-> FALSE, job_count |-> -1, job_no |-> 0,
     processing_has_refined_job_count |-> FALSE]

IdleCache ==
    /\ cache = EmptyCache
    /\ call = <<>>
    /\ cpc = [at |-> "unused", ops |-> 0, emptied |-> {}, kept |-> FALSE,
              cls_before |-> EmptyCache.cls, before |-> EmptyCache]

IdleSeed ==
    sd = [seed |-> NoneV, subseed |-> NoneV, before |-> <<NoneV, NoneV>>,
          draws |-> <<NoneV, NoneV>>, calls |-> 0]

IdleInfotext ==
    fmt = [params |-> <<>>, main_prompt |-> <<>>, main_negative_prompt |-> <<>>,
           negative_prompt |-> <<>>, parts |-> <<>>, out |-> <<>>, done |-> FALSE]

IdleDecode ==
    dec = [at |-> "unused", batch |-> <<>>, i |-> 0, samples |-> <<>>, calls |-> <<>>,
           dtype_vae |-> "float16", auto_vae_precision |-> TRUE,
           check_for_nans |-> FALSE, exc |-> "none", out |-> <<>>]

IdleImg2Img ==
    inp = [at |-> "unused", init_images |-> 0, batch_size |-> 1, b0 |-> 1, image_mask |-> <<>>,
           inpainting_mask_invert |-> FALSE, mask_blur_x |-> 0, mask_blur_y |-> 0,
           inpainting_fill |-> 0, ops |-> <<>>, mask_for_overlay |-> <<>>,
           overlay_images |-> <<>>, pixels |-> <<>>, encoded |-> <<>>,
           init_latent |-> <<>>, mask |-> <<>>, nmask |-> <<>>, generated |-> <<>>,
           samples |-> <<>>, images |-> <<>>, exc |-> "none"]

IdleAd ==
    ad = [at |-> "unused", self |-> <<>>, user |-> <<>>, self0 |-> <<>>,
          p |-> [batch_size |-> 1, do_not_save_samples |-> FALSE],
          p0 |-> [batch_size |-> 1, do_not_save_samples |-> FALSE],
          calls |-> 0, exc |-> "none", list |-> <<>>, is_img2img |-> FALSE]

IdleJobs ==
    jobs = [at |-> "unused", p |-> DefaultRequest, p0 |-> DefaultRequest,
            state |-> InitState, state0 |-> InitState, calls |-> 0, doublings |-> 0,
            exc |-> "none"]

\* no run of process_images in progress
IdleRun ==
    /\ p = DefaultRequest
    /\ opts = DefaultOpts
    /\ pc = "start"
    /\ state = InitState
    /\ n = 0
    /\ infotexts = <<>>
    /\ output_images = <<>>
    /\ samples = NoSamples
    /\ res = NoRes
    /\ exc = "none"
    /\ hist = NoHist(p)

Init ==
    /\ \E rq \in Requests : p = rq.p /\ opts = rq.opts
    /\ pc = "start"
    /\ state = InitState
    /\ n = 0
    /\ infotexts = <<>>
    /\ output_images = <<>>
    /\ samples = NoSamples
    /\ res = NoRes
    /\ exc = "none"
    /\ hist = NoHist(p)
    /\ IdleCache
    /\ IdleSeed
    /\ IdleInfotext
    /\ IdleDecode
    /\ IdleImg2Img
    /\ IdleJobs
    /\ IdleAd

Next ==
    \/ ProcessImagesSetup
    \/ IterationTop
    \/ SampleBase
    \/ SampleHires
    \/ DecodeAndPostprocess
    \/ Finalize
    \/ Interrupt
    \/ Skip

Spec == Init /\ [][Next]_vars

(***************************************************************************)
(* The conditioning caches over the life of request objects: construction, *)
(* lookups, the return of process_images, close(), option changes.         *)
(***************************************************************************)
CachePrompts == {<<"a cat">>, <<"a dog">>}
\* required_prompts and steps of a call
CacheArgs == {<<<<"a cat">>, 20>>, <<<<"a cat">>, 30>>, <<<<"a dog">>, 20>>}

CacheRequests ==
    {Txt2ImgRequest([DefaultRequest EXCEPT !.enable_hr = TRUE,
                                           !.hr_upscaler = StrV("Latent")]),
     Txt2ImgRequest([DefaultRequest EXCEPT !.width = 768]),
     Img2ImgRequest([DefaultRequest EXCEPT !.init_images = ImageNames(1)])}

\* the calls of get_conds_with_caching: function and slot list
CallSites(kind) ==
    {[fn |-> "get_learned_conditioning", caches |-> <<"cached_uc">>],
     [fn |-> "get_multicond_learned_conditioning", caches |-> <<"cached_c">>]}
    \cup IF kind = "txt2img"
         THEN {[fn |-> "get_learned_conditioning",
                caches |-> <<"cached_hr_uc", "cached_uc">>],
               [fn |-> "get_multicond_learned_conditioning",
                caches |-> <<"cached_hr_c", "cached_c">>]}
         ELSE {}

\* the class attributes close() rebinds
ClosedSlots(kind) ==
    IF kind = "txt2img" THEN SlotNames ELSE {"cached_c", "cached_uc"}

\* __init__ of a new request object
CacheConstruct ==
    /\ cpc.ops < MaxCacheOps
    /\ \E rq \in CacheRequests :
         /\ p' = rq
         /\ cache' = BindCaches(rq.kind, cache)
    /\ call' = <<>>
    /\ cpc' = [cpc EXCEPT !.at = "open", !.ops = @ + 1]
    /\ UNCHANGED <<pc, state, opts, n, infotexts, output_images, samples, res, exc,
                   hist, sd, fmt, dec, inp, jobs, ad>>

\* one call p.get_conds_with_caching(function, required_prompts, steps, caches,
\* extra_network_data); call keeps the calls made in a row on one slot list
CacheGetConds ==
    /\ cpc.at = "open"
    /\ cpc.ops < MaxCacheOps
    /\ \E site \in CallSites(p.kind), args \in CacheArgs :
         LET required_prompts == args[1]
             steps == args[2]
             cached_params ==
                 CachedParams(required_prompts, steps, opts.CLIP_stop_at_last_layers,
                              opts.sd_checkpoint_info, p.extra_network_data,
                              opts.sdxl_crop_left, opts.sdxl_crop_top,
                              p.width, p.height)
             r == get_conds_with_caching(cache, site.fn, cached_params, site.caches)
             rec == [fn |-> site.fn, caches |-> site.caches, params |-> cached_params,
                     before |-> cache, after |-> r.cache, ret |-> r.ret,
                     computed |-> r.computed, emptied |-> cpc.emptied,
                     args |-> args, opts |-> opts, size |-> <<p.width, p.height>>]
         IN  /\ cache' = r.cache
             /\ call' = IF call # <<>> /\ call[Len(call)].caches = site.caches
                        THEN (IF Len(call) = 3 THEN Tail(call) ELSE call) \o <<rec>>
                        ELSE <<rec>>
    /\ cpc' = [cpc EXCEPT !.ops = @ + 1, !.emptied = {}]
    /\ UNCHANGED <<pc, p, state, opts, n, infotexts, output_images, samples, res, exc,
                   hist, sd, fmt, dec, inp, jobs, ad>>

\* a call whose compute function raises (out of memory, a bad prompt): the
\* exception leaves process_images
CacheGetCondsRaises ==
    /\ cpc.at = "open"
    /\ cpc.ops < MaxCacheOps
    /\ \E site \in CallSites(p.kind), args \in CacheArgs :
         LET cached_params ==
                 CachedParams(args[1], args[2], opts.CLIP_stop_at_last_layers,
                              opts.sd_checkpoint_info, p.extra_network_data,
                              opts.sdxl_crop_left, opts.sdxl_crop_top,
                              p.width, p.height)
             r == get_conds_with_caching_raises(cache, site.fn, cached_params,
                                                site.caches)
         IN  /\ r.exc # "none"
             /\ cache' = r.cache
    /\ call' = <<>>
    /\ cpc' = [cpc EXCEPT !.at = "raised", !.ops = @ + 1, !.emptied = {},
                          !.before = cache]
    /\ UNCHANGED <<pc, p, state, opts, n, infotexts, output_images, samples, res, exc,
                   hist, sd, fmt, dec, inp, jobs, ad>>

\* setup_conds() for one batch of the request
CacheSetupConds ==
    /\ cpc.at = "open"
    /\ cpc.ops < MaxCacheOps
    /\ \E prompts \in CachePrompts :
         LET q == [p EXCEPT !.prompts = prompts, !.negative_prompts = <<"">>,
                            !.hr_prompts = prompts, !.hr_negative_prompts = <<"">>]
             sc == setup_conds(q, opts, cache)
         IN  /\ p' = sc.p
             /\ cache' = sc.cache
    /\ call' = <<>>
    /\ cpc' = [cpc EXCEPT !.ops = @ + 1, !.emptied = {}]
    /\ UNCHANGED <<pc, state, opts, n, infotexts, output_images, samples, res, exc,
                   hist, sd, fmt, dec, inp, jobs, ad>>

\* process_images(p) returns: it does not call p.close()
CacheReturn ==
    /\ cpc.at = "open"
    /\ cpc' = [cpc EXCEPT !.at = "returned"]
    /\ call' = <<>>
    /\ UNCHANGED <<pc, p, state, opts, n, infotexts, output_images, samples, res, exc,
                   hist, cache, sd, fmt, dec, inp, jobs, ad>>

\* the caller closes the request
CacheClose ==
    /\ cpc.at \in {"open", "returned", "raised"}
    /\ LET r == close(p, opts, cache)
       IN  /\ p' = r.p
           /\ cache' = r.cache
    /\ call' = <<>>
    /\ cpc' = [cpc EXCEPT !.at = "closed",
                          !.kept = opts.experimental_persistent_cond_cache,
                          !.cls_before = cache.cls,
                          !.emptied = IF opts.experimental_persistent_cond_cache
                                      THEN {} ELSE ClosedSlots(p.kind)]
    /\ UNCHANGED <<pc, state, opts, n, infotexts, output_images, samples, res, exc,
                   hist, sd, fmt, dec, inp, jobs, ad>>

\* the user changes the clip skip setting between two calls
CacheChangeOpts ==
    /\ cpc.at = "open"
    /\ cpc.ops < MaxCacheOps
    /\ opts' = [opts EXCEPT !.CLIP_stop_at_last_layers = 3 - @]
    /\ cpc' = [cpc EXCEPT !.ops = @ + 1]
    /\ UNCHANGED <<pc, p, state, n, infotexts, output_images, samples, res, exc,
                   hist, cache, call, sd, fmt, dec, inp, jobs, ad>>

InitCache ==
    /\ p = DefaultRequest
    /\ opts \in {DefaultOpts,
                 [DefaultOpts EXCEPT !.experimental_persistent_cond_cache = TRUE]}
    /\ pc = "start"
    /\ state = InitState
    /\ n = 0
    /\ infotexts = <<>>
    /\ output_images = <<>>
    /\ samples = NoSamples
    /\ res = NoRes
    /\ exc = "none"
    /\ hist = NoHist(p)
    /\ IdleCache
    /\ IdleSeed
    /\ IdleInfotext
    /\ IdleDecode
    /\ IdleImg2Img
    /\ IdleJobs
    /\ IdleAd

NextCache ==
    \/ CacheConstruct
    \/ CacheGetConds
    \/ CacheGetCondsRaises
    \/ CacheSetupConds
    \/ CacheReturn
    \/ CacheClose
    \/ CacheChangeOpts

SpecCache == InitCache /\ [][NextCache]_vars

(***************************************************************************)
(* fix_seed(p): p.seed = get_fixed_seed(p.seed), the same for p.subseed.   *)
(***************************************************************************)
SeedArgs ==
    {NoneV, StrV(""), IntV(-1), IntV(0), IntV(1), IntV(42), IntV(-2), StrV("7"),
     BigV(LimbBase - 1, LimbBase - 1)}

fix_seed ==
    /\ sd.calls < MaxFixSeed
    /\ \E r1 \in RandomDraws, r2 \in RandomDraws :
         sd' = [seed |-> get_fixed_seed(sd.seed, r1),
                subseed |-> get_fixed_seed(sd.subseed, r2),
                before |-> <<sd.seed, sd.subseed>>,
                draws |-> <<r1, r2>>,
                calls |-> sd.calls + 1]
    /\ UNCHANGED <<pc, p, state, opts, n, infotexts, output_images, samples, res, exc,
                   hist, cache, call, cpc, fmt, dec, inp, jobs, ad>>

InitSeed ==
    /\ \E a \in SeedArgs, b \in SeedArgs :
         sd = [seed |-> a, subseed |-> b, before |-> <<NoneV, NoneV>>,
               draws |-> <<NoneV, NoneV>>, calls |-> 0]
    /\ p = DefaultRequest
    /\ opts = DefaultOpts
    /\ pc = "start"
    /\ state = InitState
    /\ n = 0
    /\ infotexts = <<>>
    /\ output_images = <<>>
    /\ samples = NoSamples
    /\ res = NoRes
    /\ exc = "none"
    /\ hist = NoHist(p)
    /\ IdleCache
    /\ IdleInfotext
    /\ IdleDecode
    /\ IdleImg2Img
    /\ IdleJobs
    /\ IdleAd

NextSeed == fix_seed

SpecSeed == InitSeed /\ [][NextSeed]_vars

(***************************************************************************)
(* create_infotext from the finished generation_params dictionary to the   *)
(* text.                                                                   *)
(***************************************************************************)
TSteps == <<"S", "t", "e", "p", "s">>
TTiling == <<"T", "i", "l", "i", "n", "g">>
TTrue == <<"T", "r", "u", "e">>

\* keys and values generation_params can hold
PairPool ==
    {[k |-> TSteps, v |-> IntT(20)],
     [k |-> TTiling, v |-> StrT(TTrue)],
     [k |-> TTiling, v |-> NoneT],
     [k |-> <<"A">>, v |-> StrT(<<"a", ",", "b">>)],
     [k |-> <<"A">>, v |-> StrT(<<"a", "b">>)],
     [k |-> <<"B">>, v |-> StrT(<<"B">>)],
     [k |-> <<"C">>, v |-> StrT(<<"a", ":", "b">>)],
     [k |-> <<"C">>, v |-> StrT(<<"a", NL, "\"", "b">>)],
     [k |-> <<"D">>, v |-> StrT(<<"a", "\"", "b">>)],
     [k |-> <<"H">>, v |-> ListT(<<<<"a">>, <<"b">>>>)],
     [k |-> <<"H">>, v |-> ListT(<<<<"a">>>>)]}

\* dictionaries of up to MaxPairs pairs with distinct keys
RECURSIVE ParamDicts(_)
ParamDicts(len) ==
    IF len = 0 THEN {<<>>}
    ELSE ParamDicts(len - 1)
         \cup {d \o <<e>> : d \in {x \in ParamDicts(len - 1) : Len(x) = len - 1},
                            e \in PairPool}

DistinctKeys(d) == \A i, j \in 1..Len(d) : i # j => d[i].k # d[j].k

InfotextPrompts == {<<>>, <<"c", "a", "t">>, <<"c", ",", " ", "d">>}
InfotextNegatives == {<<>>, <<"b", "l", "u", "r">>}

\* the text part of create_infotext
CreateInfotextText ==
    /\ ~fmt.done
    /\ fmt' = [fmt EXCEPT
                 !.parts = PairTexts(fmt.params),
                 !.out = infotext(fmt.main_prompt, fmt.main_negative_prompt,
                                  fmt.negative_prompt, fmt.params),
                 !.done = TRUE]
    /\ UNCHANGED <<pc, p, state, opts, n, infotexts, output_images, samples, res, exc,
                   hist, cache, call, cpc, sd, dec, inp, jobs, ad>>

InitInfotext ==
    /\ \E d \in {x \in ParamDicts(MaxPairs) : DistinctKeys(x)},
          mp \in InfotextPrompts, mn \in InfotextNegatives, np \in InfotextNegatives :
         fmt = [params |-> d, main_prompt |-> mp, main_negative_prompt |-> mn,
                negative_prompt |-> np, parts |-> <<>>, out |-> <<>>, done |-> FALSE]
    /\ IdleRun
    /\ IdleCache
    /\ IdleSeed
    /\ IdleDecode
    /\ IdleImg2Img
    /\ IdleJobs
    /\ IdleAd

NextInfotext == CreateInfotextText

SpecInfotext == InitInfotext /\ [][NextInfotext]_vars

(***************************************************************************)
(* decode_latent_batch, one sample at a time.  What the VAE makes of a     *)
(* latent is the latent's own: "fine" decodes to numbers in either         *)
(* precision, "overflow" to NaNs in 16-bit and to numbers in 32-bit, "nan" *)
(* to NaNs in either.                                                      *)
(***************************************************************************)
LatentKinds == {"fine", "overflow", "nan"}

\* decode_first_stage: the latent decoded in the precision devices.dtype_vae
decode_first_stage(latent, dtype_vae) ==
    [of |-> latent, dtype |-> dtype_vae,
     nan |-> latent = "nan" \/ (latent = "overflow" /\ dtype_vae = "float16")]

\* devices.test_for_nans: whether it raises NansException
test_for_nans(sample) == sample.nan

\* one pass of the loop body, on the sample at index d.i; calls records the
\* precision the pass started with and the number of decodes it made
decode_latent_step(d) ==
    LET latent == d.batch[d.i + 1]
        sample == decode_first_stage(latent, d.dtype_vae)
    IN  IF d.check_for_nans /\ test_for_nans(sample)
        THEN IF d.dtype_vae = "float32" \/ ~d.auto_vae_precision
             THEN [d EXCEPT !.at = "raised", !.exc = "NansException",
                            !.calls = Append(@, [dtype |-> d.dtype_vae, decodes |-> 1])]
             ELSE [d EXCEPT !.dtype_vae = "float32",
                            !.samples = Append(@, decode_first_stage(latent, "float32")),
                            !.calls = Append(@, [dtype |-> d.dtype_vae, decodes |-> 2]),
                            !.i = @ + 1]
        ELSE [d EXCEPT !.samples = Append(@, sample),
                       !.calls = Append(@, [dtype |-> d.dtype_vae, decodes |-> 1]),
                       !.i = @ + 1]

DecodeLatentStep ==
    /\ dec.at = "loop"
    /\ dec.i < Len(dec.batch)
    /\ dec' = decode_latent_step(dec)
    /\ UNCHANGED <<pc, p, state, opts, n, infotexts, output_images, samples, res, exc,
                   hist, cache, call, cpc, sd, fmt, inp, jobs, ad>>

\* "return samples"
DecodeLatentReturn ==
    /\ dec.at = "loop"
    /\ dec.i = Len(dec.batch)
    /\ dec' = [dec EXCEPT !.at = "returned", !.out = dec.samples]
    /\ UNCHANGED <<pc, p, state, opts, n, infotexts, output_images, samples, res, exc,
                   hist, cache, call, cpc, sd, fmt, inp, jobs, ad>>

\* the batches of up to len latents
RECURSIVE LatentBatches(_)
LatentBatches(len) ==
    IF len = 0 THEN {<<>>}
    ELSE LatentBatches(len - 1)
           \cup {Append(b, k) : b \in {x \in LatentBatches(len - 1) : Len(x) = len - 1},
                                k \in LatentKinds}

InitDecode ==
    /\ \E b \in LatentBatches(MaxDecode), dt \in {"float16", "float32"},
          auto \in BOOLEAN, chk \in BOOLEAN :
         dec = [at |-> "loop", batch |-> b, i |-> 0, samples |-> <<>>, calls |-> <<>>,
                dtype_vae |-> dt, auto_vae_precision |-> auto,
                check_for_nans |-> chk, exc |-> "none", out |-> <<>>]
    /\ IdleRun
    /\ IdleCache
    /\ IdleSeed
    /\ IdleInfotext
    /\ IdleImg2Img
    /\ IdleJobs
    /\ IdleAd

NextDecode ==
    \/ DecodeLatentStep
    \/ DecodeLatentReturn

SpecDecode == InitDecode /\ [][NextDecode]_vars

(***************************************************************************)
(* StableDiffusionProcessingImg2Img.init and sample with a mask, and the   *)
(* paste-back of apply_overlay.  Images, masks and latents are grids over  *)
(* the same four cells: a cell of an image or of a mask stands for the     *)
(* opt_f x opt_f block of equal pixels that one latent cell covers, so     *)
(* resizing a mask to the latent size keeps the value of each cell.  A     *)
(* mask cell holds 0..255; the content of an image or latent cell is a     *)
(* token saying where it comes from.                                       *)
(***************************************************************************)
Cells == {<<1, 1>>, <<1, 2>>, <<2, 1>>, <<2, 2>>}

\* the other cell of the row, the other cell of the column
HNb(c) == <<c[1], 3 - c[2]>>
VNb(c) == <<3 - c[1], c[2]>>

Grid(v) == [c \in Cells |-> v]

Tok(k, j, c) == [k |-> k, j |-> j, c |-> c]

\* the j-th source image, flattened and resized
SourceImage(j) == [c \in Cells |-> Tok("orig", j, c)]

\* VAE encoding and decoding of a cell
Enc(t) == [t EXCEPT !.k = "lat_" \o t.k]
Dec(t) == [t EXCEPT !.k = "dec_" \o t.k]

\* create_binary_mask: the alpha channel thresholded when it is not all 255,
\* the luminance otherwise
create_binary_mask(image) ==
    IF image.mode = "RGBA" /\ (\E c \in Cells : image.alpha[c] # 255)
    THEN [c \in Cells |-> IF image.alpha[c] > 128 THEN 255 ELSE 0]
    ELSE image.lum

\* ImageOps.invert
invert(g) == [c \in Cells |-> 255 - g[c]]

\* "kernel_size = 2 * int(2.5 * self.mask_blur_x + 0.5) + 1"
KernelSize(r) == 2 * ((5 * r + 1) \div 2) + 1

\* the blur of a cell with its neighbour on a two-cell axis: a value between
\* the two, nearer the cell's own (the Gaussian weights themselves are cv2's)
Mix(a, b) == (2 * a + b + 1) \div 3

\* cv2.GaussianBlur(np_mask, (kx, ky), sigma)
GaussianBlur(g, kx, ky) ==
    LET h == [c \in Cells |-> IF kx > 1 THEN Mix(g[c], g[HNb(c)]) ELSE g[c]]
    IN  [c \in Cells |-> IF ky > 1 THEN Mix(h[c], h[VNb(c)]) ELSE h[c]]

\* the steps on image_mask up to the blurs, with the record of the steps
MaskPrepare(d) ==
    LET m0 == create_binary_mask(d.image_mask[1])
        o0 == <<[op |-> "binary", kx |-> 0, ky |-> 0, sigma |-> 0]>>
        m1 == IF d.inpainting_mask_invert THEN invert(m0) ELSE m0
        o1 == IF d.inpainting_mask_invert
              THEN Append(o0, [op |-> "invert", kx |-> 0, ky |-> 0, sigma |-> 0])
              ELSE o0
        m2 == IF d.mask_blur_x > 0
              THEN GaussianBlur(m1, KernelSize(d.mask_blur_x), 1) ELSE m1
        o2 == IF d.mask_blur_x > 0
              THEN Append(o1, [op |-> "blur", kx |-> KernelSize(d.mask_blur_x),
                               ky |-> 1, sigma |-> d.mask_blur_x])
              ELSE o1
        m3 == IF d.mask_blur_y > 0
              THEN GaussianBlur(m2, 1, KernelSize(d.mask_blur_y)) ELSE m2
        o3 == IF d.mask_blur_y > 0
              THEN Append(o2, [op |-> "blur", kx |-> 1,
                               ky |-> KernelSize(d.mask_blur_y), sigma |-> d.mask_blur_y])
              ELSE o2
    IN  [mask |-> m3, ops |-> o3]

\* "np.clip((np_mask.astype(np.float32)) * 2, 0, 255)"
MaskForOverlay(g) == [c \in Cells |-> IF 2 * g[c] > 255 THEN 255 ELSE 2 * g[c]]

\* image_masked: the image pasted through the inverted overlay mask
OverlayImage(image, mask_for_overlay) ==
    [c \in Cells |-> [px |-> image[c], alpha |-> 255 - mask_for_overlay[c]]]

\* masking.fill: the masked cells take colours blurred in from around them
Fill(image, latent_mask) ==
    [c \in Cells |-> IF latent_mask[c] > 0 THEN [image[c] EXCEPT !.k = "fill"]
                     ELSE image[c]]

\* whether the pixels are filled before encoding
PixelFill(fill) == fill # 1

\* "latmask = np.around(latmask)" of value / 255
LatMask(latent_mask) == [c \in Cells |-> IF 2 * latent_mask[c] > 255 THEN 1 ELSE 0]

\* a * m + b * nm, cell by cell, for a mask m and its complement nm
Blend(a, m, b, nm) ==
    [c \in Cells |-> IF m[c] = 1 /\ nm[c] = 0 THEN a[c]
                     ELSE IF m[c] = 0 /\ nm[c] = 1 THEN b[c]
                     ELSE Tok("mix", a[c].j, c)]

\* the latents of the batch after the fill of policy 2 or 3
LatentFill(fill, latents, mask, nmask) ==
    IF fill = 2
    THEN [j \in 1..Len(latents) |->
             Blend(latents[j], mask, [c \in Cells |-> Tok("noise", j, c)], nmask)]
    ELSE IF fill = 3
    THEN [j \in 1..Len(latents) |->
             Blend(latents[j], mask, [c \in Cells |-> Tok("zero", j, c)], nmask)]
    ELSE latents

RepeatBatch_once(x, count) == <<x>>

\* ".repeat(self.batch_size, axis=0)" and "self.overlay_images * self.batch_size"
RepeatBatch(x, count) == [j \in 1..count |-> x]

\* Img2Img.init: the mask, the overlays, the batch, the latents
Img2ImgMaskInit(d) ==
    LET has_mask == d.image_mask # <<>>
        mp == IF has_mask THEN MaskPrepare(d) ELSE [mask |-> Grid(0), ops |-> <<>>]
        image_mask == mp.mask
        mfo == MaskForOverlay(image_mask)
        k == d.init_images
        overlays == IF has_mask
                    THEN [j \in 1..k |-> OverlayImage(SourceImage(j), mfo)]
                    ELSE <<>>
        imgs == [j \in 1..k |->
                    IF has_mask /\ PixelFill(d.inpainting_fill)
                    THEN Fill(SourceImage(j), image_mask) ELSE SourceImage(j)]
        d1 == [d EXCEPT !.ops = mp.ops,
                        !.mask_for_overlay = IF has_mask THEN <<mfo>> ELSE <<>>,
                        !.overlay_images = overlays]
    IN  IF k > 1 /\ k > d.batch_size
        THEN [d1 EXCEPT !.at = "raised", !.exc = "RuntimeError"]
        ELSE
          LET batch == IF k = 1 THEN RepeatBatch(imgs[1], d.batch_size) ELSE imgs
              d2 == IF k = 1
                    THEN [d1 EXCEPT !.overlay_images =
                                        IF has_mask THEN RepeatBatch(overlays[1], d.batch_size)
                                        ELSE <<>>]
                    ELSE [d1 EXCEPT !.batch_size = k]
              latents == [j \in 1..Len(batch) |-> [c \in Cells |-> Enc(batch[j][c])]]
              latmask == LatMask(image_mask)
              mask == [c \in Cells |-> 1 - latmask[c]]
          IN  [d2 EXCEPT
                 !.at = "inited",
                 !.pixels = batch,
                 !.encoded = latents,
                 !.mask = IF has_mask THEN <<mask>> ELSE <<>>,
                 !.nmask = IF has_mask THEN <<latmask>> ELSE <<>>,
                 !.init_latent = IF has_mask
                                 THEN LatentFill(d.inpainting_fill, latents, mask, latmask)
                                 ELSE latents]

Img2ImgInitMask ==
    /\ inp.at = "new"
    /\ inp' = Img2ImgMaskInit(inp)
    /\ UNCHANGED <<pc, p, state, opts, n, infotexts, output_images, samples, res, exc,
                   hist, cache, call, cpc, sd, fmt, dec, jobs, ad>>

\* "samples = samples * self.nmask + self.init_latent * self.mask"
Composite_keeps_samples(smp, d) == smp

Composite(smp, d) ==
    IF d.mask = <<>> THEN smp
    ELSE [j \in 1..Len(smp) |-> Blend(d.init_latent[j], d.mask[1], smp[j], d.nmask[1])]

\* Img2Img.sample: the sampler output, then the composite
Img2ImgSample ==
    /\ inp.at = "inited"
    /\ LET smp == [j \in 1..Len(inp.init_latent) |-> [c \in Cells |-> Tok("gen", j, c)]]
       IN  inp' = [inp EXCEPT !.at = "sampled", !.generated = smp,
                              !.samples = Composite(smp, inp)]
    /\ UNCHANGED <<pc, p, state, opts, n, infotexts, output_images, samples, res, exc,
                   hist, cache, call, cpc, sd, fmt, dec, jobs, ad>>

\* apply_overlay (paste_to is None): the overlay of the index composited
\* over the image
apply_overlay(image, index, overlays) ==
    IF index >= Len(overlays) THEN image
    ELSE LET overlay == overlays[index + 1]
         IN  [c \in Cells |-> IF overlay[c].alpha = 0 THEN image[c]
                              ELSE IF overlay[c].alpha = 255 THEN overlay[c].px
                              ELSE Tok("mix", index + 1, c)]

\* the loop over the decoded samples in process_images_inner
Img2ImgPaste ==
    /\ inp.at = "sampled"
    /\ inp' = [inp EXCEPT
                 !.at = "pasted",
                 !.images = [j \in 1..Len(inp.samples) |->
                               apply_overlay([c \in Cells |-> Dec(inp.samples[j][c])],
                                             j - 1, inp.overlay_images)]]
    /\ UNCHANGED <<pc, p, state, opts, n, infotexts, output_images, samples, res, exc,
                   hist, cache, call, cpc, sd, fmt, dec, jobs, ad>>

\* the masks given to a request: None, or the image Gradio passes
MaskInputs ==
    { <<>>,
      <<[mode |-> "L", alpha |-> Grid(255), lum |-> Grid(255)]>>,
      <<[mode |-> "L", alpha |-> Grid(255), lum |-> Grid(0)]>>,
      <<[mode |-> "L", alpha |-> Grid(255),
         lum |-> [c \in Cells |-> IF c[2] = 1 THEN 255 ELSE 0]]>>,
      <<[mode |-> "RGBA",
         alpha |-> [c \in Cells |-> IF c = <<1, 1>> THEN 255
                                    ELSE IF c = <<1, 2>> THEN 128 ELSE 0],
         lum |-> Grid(0)]>> }

InitImg2Img ==
    /\ \E k \in 1..(MaxBatch + 1), b \in 1..MaxBatch, m \in MaskInputs,
          inv \in BOOLEAN, bx \in 0..MaxBlur, by \in 0..MaxBlur, fill \in 0..3 :
         inp = [at |-> "new", init_images |-> k, batch_size |-> b, b0 |-> b,
                image_mask |-> m,
                inpainting_mask_invert |-> inv, mask_blur_x |-> bx, mask_blur_y |-> by,
                inpainting_fill |-> fill, ops |-> <<>>, mask_for_overlay |-> <<>>,
                overlay_images |-> <<>>, pixels |-> <<>>, encoded |-> <<>>,
                init_latent |-> <<>>, mask |-> <<>>, nmask |-> <<>>,
                generated |-> <<>>, samples |-> <<>>, images |-> <<>>, exc |-> "none"]
    /\ IdleRun
    /\ IdleCache
    /\ IdleSeed
    /\ IdleInfotext
    /\ IdleDecode
    /\ IdleJobs
    /\ IdleAd

NextImg2Img ==
    \/ Img2ImgInitMask
    \/ Img2ImgSample
    \/ Img2ImgPaste

SpecImg2Img == InitImg2Img /\ [][NextImg2Img]_vars

(***************************************************************************)
(* The job count of shared.state over the setups of runs: p.init, which a  *)
(* script or a further run may call again, and the lines after it that set *)
(* the count of a run that nothing has counted yet.                        *)
(***************************************************************************)
MaxInitCalls == 3

\* p.init(p.all_prompts, p.all_seeds, p.all_subseeds)
JobsInit ==
    /\ jobs.at \in {"new", "inited", "counted"}
    /\ jobs.calls < MaxInitCalls
    /\ LET i == init(jobs.p, jobs.state, opts)
       IN  jobs' = [jobs EXCEPT
                      !.at = IF i.exc = "none" THEN "inited" ELSE "raised",
                      !.p = i.p,
                      !.state = i.state,
                      !.exc = i.exc,
                      !.calls = @ + 1,
                      !.doublings = IF i.state.job_count # jobs.state.job_count
                                    THEN @ + 1 ELSE @]
    /\ UNCHANGED <<pc, p, state, opts, n, infotexts, output_images, samples, res, exc,
                   hist, cache, call, cpc, sd, fmt, dec, inp, ad>>

\* "if state.job_count == -1: state.job_count = p.n_iter"
JobsCount ==
    /\ jobs.at = "inited"
    /\ jobs' = [jobs EXCEPT
                  !.at = "counted",
                  !.state = IF jobs.state.job_count = -1
                            THEN [jobs.state EXCEPT !.job_count = jobs.p.n_iter]
                            ELSE jobs.state]
    /\ UNCHANGED <<pc, p, state, opts, n, infotexts, output_images, samples, res, exc,
                   hist, cache, call, cpc, sd, fmt, dec, inp, ad>>

\* shared.state when a run starts: nothing counted yet, or a count that an
\* earlier component has set, with or without the flag that says so
JobStates ==
    { InitState,
      [InitState EXCEPT !.job_count = 5],
      [InitState EXCEPT !.job_count = 5, !.processing_has_refined_job_count = TRUE] }

JobRequests == HiresFamily \cup Img2ImgFamily \cup HookFamily

InitJobs ==
    /\ \E rq \in JobRequests, st \in JobStates :
         jobs = [at |-> "new", p |-> rq.p, p0 |-> rq.p, state |-> st, state0 |-> st,
                 calls |-> 0, doublings |-> 0, exc |-> "none"]
    /\ IdleRun
    /\ IdleCache
    /\ IdleSeed
    /\ IdleInfotext
    /\ IdleDecode
    /\ IdleImg2Img
    /\ IdleAd

NextJobs ==
    \/ JobsInit
    \/ JobsCount

SpecJobs == InitJobs /\ [][NextJobs]_vars

(***************************************************************************)
(* AnimateDiffProcess (animatediff_ui.py).  The object is its attribute    *)
(* dict vars(self), in insertion order; p is the request set_p writes to.  *)
(***************************************************************************)
MaxSetP == 2

BoolV(b) == [t |-> "bool", hi |-> 0, i |-> IF b THEN 1 ELSE 0, s |-> "", l |-> <<>>]

\* the number an int value holds
IntOf(v) == v.hi * LimbBase + v.i

\* __init__: the twenty attributes, assigned in the order of the parameters
AnimateDiffProcess(video_length, fps, batch_size, overlap, format) ==
    <<[k |-> "model", v |-> StrV("mm_sd_v15_v2.ckpt")],
      [k |-> "enable", v |-> BoolV(FALSE)],
      [k |-> "video_length", v |-> IntV(video_length)],
      [k |-> "fps", v |-> IntV(fps)],
      [k |-> "loop_number", v |-> IntV(0)],
      [k |-> "closed_loop", v |-> BoolV(FALSE)],
      [k |-> "batch_size", v |-> IntV(batch_size)],
      [k |-> "stride", v |-> IntV(1)],
      [k |-> "overlap", v |-> IntV(overlap)],
      [k |-> "format", v |-> ListV(format)],
      [k |-> "interp", v |-> StrV("Off")],
      [k |-> "interp_x", v |-> IntV(10)],
      [k |-> "reverse", v |-> ListV(<<>>)],
      [k |-> "video_source", v |-> NoneV],
      [k |-> "video_path", v |-> StrV("")],
      [k |-> "latent_power", v |-> IntV(1)],
      [k |-> "latent_scale", v |-> IntV(32)],
      [k |-> "last_frame", v |-> NoneV],
      [k |-> "latent_power_last", v |-> IntV(1)],
      [k |-> "latent_scale_last", v |-> IntV(32)]>>

\* list(vars(self).values())
Values(self) == [j \in 1..Len(self) |-> self[j].v]

\* list_var[:-5] unless is_img2img
get_list(self, is_img2img) ==
    LET list_var == Values(self)
    IN  IF ~is_img2img
        THEN SubSeq(list_var, 1, Max(Len(list_var) - 5, 0))
        ELSE list_var

InFormat(self, name) ==
    \E j \in 1..Len(DictGet(self, "format").l) : DictGet(self, "format").l[j] = name

_check_fps_only(self) ==
    IF ~(IntOf(DictGet(self, "fps")) > 0) THEN "AssertionError"
    ELSE IF ~(\E name \in {"GIF", "MP4", "PNG"} : InFormat(self, name))
    THEN "AssertionError"
    ELSE "none"

\* the two assertions
_check(self) ==
    IF ~(IntOf(DictGet(self, "video_length")) >= 0 /\ IntOf(DictGet(self, "fps")) > 0)
    THEN "AssertionError"
    ELSE IF ~(\E name \in {"GIF", "MP4", "PNG"} : InFormat(self, name))
    THEN "AssertionError"
    ELSE "none"

\* set_p(p): the object and the request after the call, and what it raised
set_p(self, q) ==
    IF _check(self) # "none" THEN [self |-> self, p |-> q, exc |-> _check(self)]
    ELSE
      LET video_length == IntOf(DictGet(self, "video_length"))
          batch_size == IntOf(DictGet(self, "batch_size"))
          q1 == [q EXCEPT !.batch_size = IF video_length < batch_size
                                         THEN batch_size ELSE video_length]
          s1 == IF video_length = 0
                THEN DictSet(DictSet(self, "video_length", IntV(q1.batch_size)),
                             "video_default", BoolV(TRUE))
                ELSE DictSet(self, "video_default", BoolV(FALSE))
          s2 == IF IntOf(DictGet(s1, "overlap")) = -1
                THEN DictSet(s1, "overlap", IntV(batch_size \div 4))
                ELSE s1
          q2 == IF ~InFormat(s2, "PNG")
                THEN [q1 EXCEPT !.do_not_save_samples = TRUE]
                ELSE q1
      IN  [self |-> s2, p |-> q2, exc |-> "none"]

\* params.set_p(p)
AdSetP ==
    /\ ad.at \in {"new", "set"}
    /\ ad.calls < MaxSetP
    /\ LET r == set_p(ad.self, ad.p)
       IN  ad' = [ad EXCEPT !.at = IF r.exc = "none" THEN "set" ELSE "raised",
                            !.self = r.self, !.p = r.p, !.exc = r.exc,
                            !.self0 = ad.self, !.p0 = ad.p,
                            !.list = <<>>, !.is_img2img = FALSE,
                            !.calls = @ + 1]
    /\ UNCHANGED <<pc, p, state, opts, n, infotexts, output_images, samples, res, exc,
                   hist, cache, call, cpc, sd, fmt, dec, inp, jobs>>

\* params.get_list(is_img2img)
AdGetList ==
    /\ ad.at # "unused"
    /\ \E is_img2img \in BOOLEAN :
         ad' = [ad EXCEPT !.list = get_list(ad.self, is_img2img),
                          !.is_img2img = is_img2img]
    /\ UNCHANGED <<pc, p, state, opts, n, infotexts, output_images, samples, res, exc,
                   hist, cache, call, cpc, sd, fmt, dec, inp, jobs>>

AdFormats == {<<"GIF", "PNG">>, <<"GIF">>, <<>>, <<"TXT">>}

InitAnimateDiff ==
    /\ \E video_length \in {-1, 0, 1, 20}, fps \in {0, 8}, batch_size \in {1, 2, 16},
          overlap \in {-1, 0, 4}, format \in AdFormats,
          pb \in {1, 3}, dn \in BOOLEAN :
         LET self == AnimateDiffProcess(video_length, fps, batch_size, overlap, format)
             q == [batch_size |-> pb, do_not_save_samples |-> dn]
         IN  ad = [at |-> "new", self |-> self, user |-> self, self0 |-> self,
                   p |-> q, p0 |-> q, calls |-> 0, exc |-> "none",
                   list |-> <<>>, is_img2img |-> FALSE]
    /\ IdleRun
    /\ IdleCache
    /\ IdleSeed
    /\ IdleInfotext
    /\ IdleDecode
    /\ IdleImg2Img
    /\ IdleJobs

NextAnimateDiff ==
    \/ AdSetP
    \/ AdGetList

SpecAnimateDiff == InitAnimateDiff /\ [][NextAnimateDiff]_vars

(***************************************************************************)
(* Claims.                                                                 *)
(***************************************************************************)

\* a run that completed every iteration, with a scalar prompt, a concrete
\* seed and no variation strength
C1_Case ==
    /\ pc = "done"
    /\ n = p.n_iter
    /\ ~p.prompt.isList
    /\ p.seed.t = "int" /\ p.seed # IntV(-1)
    /\ p.subseed_strength = 0

\* the image at overall position it * batch_size + i is the one iteration it
\* made at position i, and its infotext carries the seed all_seeds has there
C1_Images(batch_size, total) ==
    /\ Len(res.images) = total
    /\ Len(res.infotexts) = total
    /\ \A it \in 0..(p.n_iter - 1), i \in 0..(batch_size - 1) :
         LET k == it * batch_size + i + 1
         IN  /\ res.images[k].iteration = it
             /\ res.images[k].index = i
             /\ res.images[k].seed = res.all_seeds[k]
             /\ DictGet(res.infotexts[k].params, "Seed") = res.all_seeds[k]

\* C1: a run that completes every iteration with a scalar prompt, a concrete
\* seed s and no variation strength returns batch_size * n_iter images and
\* all_seeds = [s, s+1, ...] of that length, and the infotext of the image at
\* position n * batch_size + i carries the seed all_seeds has there
C1_Original ==
    C1_Case =>
      LET total == hist.p0.batch_size * p.n_iter
      IN  /\ C1_Images(hist.p0.batch_size, total)
          /\ res.all_seeds = [k \in 1..total |-> AddInt(p.seed, k - 1)]

\* the same for text-to-image requests only
C1_Txt2Img == (p.kind = "txt2img") => C1_Original

\* a finished text-to-image run of two iterations of two images
C1_Txt2ImgReached ==
    C1_Case /\ p.kind = "txt2img" /\ p.batch_size = 2 /\ p.n_iter = 2

\* the <<iteration, index>> pairs of the images iterations 0..k make, in order
RECURSIVE ExpectedImages(_, _)
ExpectedImages(q, k) ==
    IF k < 0 THEN <<>>
    ELSE ExpectedImages(q, k - 1)
         \o [i \in 1..Len(Slice(q.all_prompts, k * q.batch_size,
                                (k + 1) * q.batch_size)) |-> <<k, i - 1>>]

ImagePlaces(images) == [j \in 1..Len(images) |-> <<images[j].iteration, images[j].index>>]

\* C2: the interrupt flag is read once per iteration, at its top; when it is set
\* after the check of iteration k (k >= 0) and before the next check, the run
\* still finishes iteration k (its hires pass included), and the result holds
\* exactly the images of iterations 0..k, in order
C2_InterruptAfterCheck ==
    /\ hist.polls = n + (IF pc \in {"sample", "hires", "decode"} THEN 1 ELSE 0)
                      + (IF pc \in {"finalize", "done", "raised"}
                            /\ n < p.n_iter /\ exc # "RuntimeError"
                         THEN 1 ELSE 0)
    /\ hist.set_after >= 1 =>
         /\ exc \in {"none", "Exception"}
         /\ pc = "finalize" => ImagePlaces(output_images)
                                 = ExpectedImages(p, hist.set_after - 1)
         /\ pc = "done" =>
              /\ res.made
              /\ ImagePlaces(res.images) = ExpectedImages(p, hist.set_after - 1)
              /\ \A j \in 1..Len(res.images) :
                   /\ res.images[j].iteration <= hist.set_after - 1
                   /\ res.images[j].hires = (p.kind = "txt2img" /\ p.enable_hr)

\* C2 witness: interrupted during the first of several iterations, with a hires
\* pass, and the result holds that iteration's images only
C2_Witness ==
    /\ pc = "done"
    /\ hist.set_after = 1
    /\ p.n_iter >= 2
    /\ p.enable_hr
    /\ Len(res.images) = p.batch_size
    /\ res.images[1].hires

\* C3: an interrupt never makes process_images raise (the only
\* exceptions of an interrupted run are the ones init and sample raise on a bad
\* request)
C3_InterruptNeverRaises ==
    (state.interrupted /\ pc = "raised") => exc \in {"Exception", "RuntimeError"}

\* C5: after setup, all_seeds and all_subseeds have one entry per entry of
\* all_prompts; all_seeds[i] is seed + i without variation strength and seed
\* with it, all_subseeds[i] is subseed + i; a concrete seed is the one given
C5_SeedExpansion ==
    (pc # "start") =>
      /\ Len(p.all_prompts) >= 1
      /\ Len(p.all_seeds) = Len(p.all_prompts)
      /\ Len(p.all_subseeds) = Len(p.all_prompts)
      /\ (hist.p0.seed.t = "int" /\ hist.p0.seed # IntV(-1)) => p.all_seeds[1] = hist.p0.seed
      /\ (hist.p0.subseed.t = "int" /\ hist.p0.subseed # IntV(-1))
            => p.all_subseeds[1] = hist.p0.subseed
      /\ \A i \in 0..(Len(p.all_prompts) - 1) :
           /\ p.all_seeds[i + 1] =
                 AddInt(p.all_seeds[1], IF p.subseed_strength = 0 THEN i ELSE 0)
           /\ p.all_subseeds[i + 1] = AddInt(p.all_subseeds[1], i)

\* C5 witness: several images with variation strength: one seed for all
C5_Witness ==
    /\ pc = "loop"
    /\ p.subseed_strength # 0
    /\ Len(p.all_prompts) >= 3
    /\ p.all_seeds[3] = p.all_seeds[1]
    /\ p.all_subseeds[3] = AddInt(p.all_subseeds[1], 2)

\* is v an integer of 0..4294967293
InRandomRange(v) == v.t = "int" /\ ~LessInt(v, IntV(0)) /\ LessInt(v, RandomRange)

SeedResolved(before, after, r) ==
    IF before \in {NoneV, StrV(""), IntV(-1)}
    THEN after = r /\ InRandomRange(after) /\ after # IntV(-1)
    ELSE after = before

\* C4: get_fixed_seed returns its argument unchanged unless it is None, the
\* empty string or -1; for these it returns the integer drawn, which lies in
\* 0..4294967293 and so is never -1
C4_GetFixedSeed ==
    sd.calls >= 1 =>
      /\ SeedResolved(sd.before[1], sd.seed, sd.draws[1])
      /\ SeedResolved(sd.before[2], sd.subseed, sd.draws[2])

\* C4 witness: the sentinel -1 became the largest value of the range, and the
\* concrete seed 0 was kept
C4_Witness ==
    /\ sd.calls = 1
    /\ sd.before = <<IntV(-1), IntV(0)>>
    /\ sd.seed = BigV(LimbBase - 1, LimbBase - 3)
    /\ sd.subseed = IntV(0)

CallHits(r) ==
    \E j \in 1..Len(r.caches) :
        r.before.inst[r.caches[j]].has /\ r.before.inst[r.caches[j]].key = r.params

FirstHit(r) ==
    CHOOSE j \in 1..Len(r.caches) :
        /\ r.before.inst[r.caches[j]].has /\ r.before.inst[r.caches[j]].key = r.params
        /\ \A y \in 1..(j - 1) : ~(/\ r.before.inst[r.caches[y]].has
                                   /\ r.before.inst[r.caches[y]].key = r.params)

\* C6: the key of a call is (prompts, steps, clip skip, checkpoint, extra
\* network data, crop left, crop top, width, height); when a listed slot holds
\* that key the first such slot's tensor is returned, nothing is computed and
\* nothing is stored; otherwise the function is computed once, the first slot
\* of the list gets the key and the result, the other slots are untouched, and
\* the result is returned
C6_GetOrCompute ==
    \A i \in 1..Len(call) :
      LET r == call[i] IN
        /\ DOMAIN r.params = {"prompts", "steps", "clip_skip", "checkpoint",
                              "extra_network_data", "crop_left", "crop_top",
                              "width", "height"}
        /\ r.ret = Compute(r.fn, r.params)
        /\ IF CallHits(r)
           THEN /\ r.computed = 0
                /\ r.ret = r.before.inst[r.caches[FirstHit(r)]].val
                /\ r.after = r.before
           ELSE /\ r.computed = 1
                /\ r.after.inst[r.caches[1]] =
                       [has |-> TRUE, key |-> r.params, val |-> r.ret]
                /\ \A s \in SlotNames \ {r.caches[1]} :
                       r.after.inst[s] = r.before.inst[s]
        /\ r.params = CachedParams(r.args[1], r.args[2],
                                   r.opts.CLIP_stop_at_last_layers,
                                   r.opts.sd_checkpoint_info, "",
                                   r.opts.sdxl_crop_left, r.opts.sdxl_crop_top,
                                   r.size[1], r.size[2])
        /\ i = Len(call) => r.after = cache

\* C6 witness: on the list [cached_hr_uc, cached_uc] a miss stored in
\* cached_hr_uc, and the next call found its key in cached_uc
C6_Witness ==
    /\ Len(call) = 2
    /\ call[1].caches = <<"cached_hr_uc", "cached_uc">>
    /\ call[1].computed = 1
    /\ call[1].after.inst["cached_hr_uc"].key = call[1].params
    /\ call[2].computed = 0
    /\ call[2].params # call[1].params
    /\ call[2].ret = call[2].before.inst["cached_uc"].val

\* C7: in a row of calls on one slot list, a call with the key of the call
\* before it computes nothing, and a call whose key differs in a component
\* from every key the listed slots hold computes again
C7_OncePerKey ==
    /\ \A i \in 2..Len(call) :
         call[i].params = call[i - 1].params => call[i].computed = 0
    /\ \A i \in 1..Len(call) :
         (\A j \in 1..Len(call[i].caches) :
             LET slot == call[i].before.inst[call[i].caches[j]]
             IN  slot.has => \E f \in DOMAIN slot.key : slot.key[f] # call[i].params[f])
         => call[i].computed = 1

\* C7 witness: the same key twice, then the key with another step count
C7_Witness ==
    /\ Len(call) = 3
    /\ call[1].params = call[2].params
    /\ call[1].computed = 1 /\ call[2].computed = 0
    /\ call[3].params = [call[2].params EXCEPT !.steps = 30]
    /\ call[2].params.steps = 20
    /\ call[3].computed = 1

SlotWellFormed(slot) ==
    IF slot.has THEN slot.val.for = slot.key /\ slot.val.fn # "none"
    ELSE slot = EmptySlot

\* C8: a slot holds one key and the tensor computed for that key, or nothing;
\* after a miss the first slot of the list holds the new key only, so the key
\* it held before no longer hits there, and the calls K1, K2, K1 on a one-slot
\* list compute three times
C8_SingleEntry ==
    /\ \A s \in SlotNames : SlotWellFormed(cache.inst[s]) /\ SlotWellFormed(cache.cls[s])
    /\ \A i \in 1..Len(call) :
         LET r == call[i]
             old == r.before.inst[r.caches[1]]
         IN  r.computed = 1 =>
               /\ r.after.inst[r.caches[1]].key = r.params
               /\ r.after.inst[r.caches[1]].val.for = r.params
               /\ old.has => ~SlotHits(r.after, r.caches[1], old.key)
    /\ (/\ Len(call) = 3
        /\ Len(call[1].caches) = 1
        /\ call[1].params = call[3].params
        /\ call[1].params # call[2].params
        /\ call[1].computed = 1)
       => call[2].computed = 1 /\ call[3].computed = 1

\* C8 witness: K1, K2, K1 on the list [cached_c], each computed
C8_Witness ==
    /\ Len(call) = 3
    /\ call[1].caches = <<"cached_c">>
    /\ call[1].params = call[3].params
    /\ call[1].params # call[2].params
    /\ call[1].computed + call[2].computed + call[3].computed = 3

\* C9 (original statement): with the persistent-cache option off, every slot is empty
\* once process_images has returned
C9_Original ==
    (cpc.at = "returned" /\ ~opts.experimental_persistent_cond_cache) =>
      \A s \in SlotNames : cache.cls[s] = EmptySlot /\ cache.inst[s] = EmptySlot

\* C9: the return of process_images leaves the slots as they are; close()
\* with the persistent-cache option off leaves the class-level slots it covers
\* empty (all four for a text-to-image request, cached_c and cached_uc for an
\* image-to-image request), and the first lookup of a request constructed
\* after it, on a list of such slots, computes whatever its key; close() with
\* the option on leaves the class-level slots as they were
C9_CloseClears ==
    /\ (cpc.at = "closed" /\ ~cpc.kept) =>
         \A s \in ClosedSlots(p.kind) : cache.cls[s] = EmptySlot
    /\ (cpc.at = "closed" /\ cpc.kept) => cache.cls = cpc.cls_before
    /\ \A i \in 1..Len(call) :
         (\A j \in 1..Len(call[i].caches) : call[i].caches[j] \in call[i].emptied)
            => call[i].computed = 1

\* C9 witness: a lookup computed and stored, the request was closed with the
\* option off, and the first lookup of the next request computed the same key
\* again
C9_Witness ==
    /\ Len(call) = 1
    /\ call[1].emptied = SlotNames
    /\ call[1].computed = 1
    /\ call[1].caches = <<"cached_uc">>
    /\ cpc.cls_before["cached_uc"].has
    /\ cpc.cls_before["cached_uc"].key = call[1].params
    /\ ~cpc.kept

HasHiresSizeKey(d) == DictHas(d, "Hires upscale") \/ DictHas(d, "Hires resize")

\* C10: a text-to-image request that enables hires and whose derived target
\* equals the base size runs with enable_hr off: no second pass, no
\* "Hires upscale"/"Hires resize" key in extra_generation_params or in an
\* infotext, and neither init nor sample raises
C10_HiresNoop ==
    (/\ pc # "start"
     /\ hist.p0.kind = "txt2img" /\ hist.p0.enable_hr
     /\ p.hr_upscale_to_x = p.width /\ p.hr_upscale_to_y = p.height) =>
      /\ ~p.enable_hr
      /\ pc # "hires"
      /\ exc \notin {"Exception", "RuntimeError"}
      /\ ~HasHiresSizeKey(p.extra_generation_params)
      /\ \A j \in 1..Len(infotexts) : ~HasHiresSizeKey(infotexts[j].params)
      /\ \A j \in 1..Len(output_images) : ~output_images[j].hires
      /\ res.made =>
           /\ ~HasHiresSizeKey(res.extra_generation_params)
           /\ \A j \in 1..Len(res.infotexts) : ~HasHiresSizeKey(res.infotexts[j].params)
           /\ \A j \in 1..Len(res.images) : ~res.images[j].hires

\* C10 witness: a finished no-op run whose upscaler name is not registered
C10_Witness ==
    /\ pc = "done"
    /\ hist.p0.enable_hr /\ ~p.enable_hr
    /\ p.hr_upscale_to_x = p.width /\ p.hr_upscale_to_y = p.height
    /\ p.hr_upscaler = StrV("R-ESRGAN 9x")
    /\ Len(res.images) >= 1

HiresKeys ==
    {"Hires upscale", "Hires resize", "Hires sampler", "Hires prompt",
     "Hires negative prompt", "Hires steps", "Hires upscaler"}

\* a text-to-image request that enabled hires and whose init found the target
\* equal to the base size
HiresNoopCase ==
    /\ pc # "start"
    /\ exc # "RuntimeError"
    /\ hist.p0.kind = "txt2img" /\ hist.p0.enable_hr
    /\ p.hr_upscale_to_x = p.width /\ p.hr_upscale_to_y = p.height

\* C11: when the hires target equals the base size, extra_generation_params
\* holds none of the seven hires keys after init, whatever hr_sampler_name,
\* hr_prompt and hr_negative_prompt the request supplied
C11_NoopClearsAllKeys ==
    HiresNoopCase => \A k \in HiresKeys : ~DictHas(p.extra_generation_params, k)

\* a text-to-image request that enabled hires, after init
HiresInitDone ==
    pc # "start" /\ hist.p0.kind = "txt2img" /\ hist.p0.enable_hr

\* C12: for base W x H and requested (rx, ry): with rx = ry = 0 the target is
\* (int(W * hr_scale), int(H * hr_scale)); with only rx it is (rx, rx*H div W);
\* with only ry it is (ry*W div H, ry); with both, the target covers rx x ry
\* with equality in one dimension, and truncate_x = (upscale_to_x - rx) div 8,
\* truncate_y = (upscale_to_y - ry) div 8 are non-negative and not both non-zero
C12_TargetDerivation ==
    HiresInitDone =>
      LET W == p.width
          H == p.height
          rx == p.hr_resize_x
          ry == p.hr_resize_y
          ux == p.hr_upscale_to_x
          uy == p.hr_upscale_to_y
      IN  /\ (rx = 0 /\ ry = 0) =>
                /\ 4 * ux <= W * p.hr_scale.x4 /\ W * p.hr_scale.x4 < 4 * (ux + 1)
                /\ 4 * uy <= H * p.hr_scale.x4 /\ H * p.hr_scale.x4 < 4 * (uy + 1)
                /\ p.truncate_x = 0 /\ p.truncate_y = 0
          /\ (rx # 0 /\ ry = 0) =>
                /\ ux = rx /\ uy = (rx * H) \div W
                /\ p.truncate_x = 0 /\ p.truncate_y = 0
          /\ (rx = 0 /\ ry # 0) =>
                /\ ux = (ry * W) \div H /\ uy = ry
                /\ p.truncate_x = 0 /\ p.truncate_y = 0
          /\ (rx # 0 /\ ry # 0) =>
                /\ ux >= rx /\ uy >= ry
                /\ ux = rx \/ uy = ry
                /\ ux = rx => uy = (rx * H) \div W
                /\ uy = ry => ux = (ry * W) \div H
                /\ p.truncate_x = (ux - rx) \div 8
                /\ p.truncate_y = (uy - ry) \div 8
                /\ p.truncate_x >= 0 /\ p.truncate_y >= 0
                /\ p.truncate_x = 0 \/ p.truncate_y = 0

\* C12 witness: base 512x768 with the target 256x512 of another aspect ratio:
\* the upscale size is 341x512 and ten latent columns are cut
C12_Witness ==
    /\ HiresInitDone
    /\ p.width = 512 /\ p.height = 768
    /\ p.hr_resize_x = 256 /\ p.hr_resize_y = 512
    /\ p.hr_upscale_to_x = 341 /\ p.hr_upscale_to_y = 512
    /\ p.truncate_x = 10 /\ p.truncate_y = 0

\* a hires pass has upscaled and cut the latent of the current batch
HiresCutDone == pc = "decode" /\ samples.hires

\* C13 (original statement): for a requested target with both dimensions
\* non-zero the latent after the cut has exactly (hr_resize_y div 8,
\* hr_resize_x div 8) cells
C13_Original ==
    (HiresCutDone /\ p.hr_resize_x # 0 /\ p.hr_resize_y # 0) =>
      /\ samples.shape[2] = p.hr_resize_y \div 8
      /\ samples.shape[3] = p.hr_resize_x \div 8

\* C13: the latent is upscaled to (upscale_to_y div 8, upscale_to_x div 8)
\* cells and the hires pass removes truncate div 2 cells at the leading edge
\* and (truncate + 1) div 2 at the trailing edge of each axis; the size left is
\* upscale_to div 8 - truncate; for a requested target with both dimensions
\* non-zero and multiples of 8 that is exactly (hr_resize_y div 8,
\* hr_resize_x div 8), for other targets it is that or one cell more
C13_TruncateToTarget ==
    HiresCutDone =>
      /\ samples.upscaled = <<p.hr_upscale_to_y \div 8, p.hr_upscale_to_x \div 8>>
      /\ samples.window[1][1] = p.truncate_y \div 2
      /\ samples.upscaled[1] - samples.window[1][2] = (p.truncate_y + 1) \div 2
      /\ samples.window[2][1] = p.truncate_x \div 2
      /\ samples.upscaled[2] - samples.window[2][2] = (p.truncate_x + 1) \div 2
      /\ samples.shape[2] = samples.upscaled[1] - p.truncate_y
      /\ samples.shape[3] = samples.upscaled[2] - p.truncate_x
      /\ p.rng.shape = samples.shape
      /\ (p.hr_resize_x # 0 /\ p.hr_resize_y # 0) =>
           /\ samples.shape[2] - (p.hr_resize_y \div 8) \in {0, 1}
           /\ samples.shape[3] - (p.hr_resize_x \div 8) \in {0, 1}
           /\ (p.hr_resize_x % 8 = 0 /\ p.hr_resize_y % 8 = 0) =>
                /\ samples.shape[2] = p.hr_resize_y \div 8
                /\ samples.shape[3] = p.hr_resize_x \div 8

\* C13 witness: base 512x512 with target 512x768: upscaled to 96x96 cells, 16
\* columns cut on each side, 96x64 cells left
C13_Witness ==
    /\ HiresCutDone
    /\ p.width = 512 /\ p.height = 512
    /\ p.hr_resize_x = 512 /\ p.hr_resize_y = 768
    /\ samples.upscaled = <<96, 96>>
    /\ samples.window = <<<<0, 96>>, <<16, 80>>>>
    /\ samples.shape = <<4, 96, 64>>

NoContinuation == {StrV("PLMS"), StrV("UniPC")}

\* C14: when sampler_name is PLMS or UniPC the second pass runs with DDIM and
\* nothing is raised; the base pass of every iteration still runs with
\* sampler_name, and the request's sampler_name field is never changed
C14_SamplerSubstitution ==
    /\ p.sampler_name = hist.p0.sampler_name
    /\ samples.made => samples.sampler = hist.p0.sampler_name
    /\ (hist.p0.kind = "txt2img" /\ hist.p0.sampler_name \in NoContinuation) =>
         /\ exc = "Exception" => hist.p0.hr_upscaler.s \notin LatentUpscaleModes
         /\ samples.hires => samples.hr_sampler = StrV("DDIM")
         /\ (pc = "decode" /\ samples.hires) => p.sampler = StrV("DDIM")
         /\ pc = "hires" => p.sampler = hist.p0.sampler_name
         /\ \A j \in 1..Len(output_images) :
              output_images[j].sampler =
                 IF output_images[j].hires THEN StrV("DDIM") ELSE hist.p0.sampler_name

\* C14 witness: the second iteration of a PLMS request: the base pass ran with
\* PLMS again after the first iteration's second pass had run with DDIM
C14_Witness ==
    /\ pc = "hires"
    /\ n = 1
    /\ hist.p0.sampler_name = StrV("PLMS")
    /\ hist.p0.hr_sampler_name = StrV("Euler a")
    /\ samples.sampler = StrV("PLMS")
    /\ p.sampler = StrV("PLMS")
    /\ Len(output_images) = 1
    /\ output_images[1].hires /\ output_images[1].sampler = StrV("DDIM")

SpecialChars == {",", NL, ":"}

\* the pairs of the dictionary whose value is not None
LivePairs(d) == SelectSeq(d, LAMBDA e : e.v.t # "none")

\* C15 (original statement): the parameter line joins with ', ' the pairs
\* whose value is not None, in dictionary order; a pair whose key equals its
\* value is the bare key, any other is 'key: value' with the value as a JSON
\* string when its text holds a comma, a newline or a colon and as plain text
\* otherwise
C15_Original ==
    fmt.done =>
      LET live == LivePairs(fmt.params) IN
        /\ Len(fmt.parts) = Len(live)
        /\ \A j \in 1..Len(live) :
             LET k == live[j].k
                 v == live[j].v
                 text == Str(v)
             IN  fmt.parts[j] =
                   IF v.t = "str" /\ v.s = k THEN k
                   ELSE IF \E c \in SpecialChars : Contains(text, c)
                   THEN k \o <<":", " ">> \o JsonString(text)
                   ELSE k \o <<":", " ">> \o text

\* C15: as above, except that the value with a comma, a newline or a colon in
\* its text is emitted as json.dumps gives it: a JSON string for a str, a JSON
\* array of strings for a list
C15_PairFormatting ==
    fmt.done =>
      LET live == LivePairs(fmt.params) IN
        /\ Len(fmt.parts) = Len(live)
        /\ \A j \in 1..Len(live) :
             LET k == live[j].k
                 v == live[j].v
                 text == Str(v)
             IN  fmt.parts[j] =
                   IF v.t = "str" /\ v.s = k THEN k
                   ELSE IF \E c \in SpecialChars : Contains(text, c)
                   THEN k \o <<":", " ">>
                          \o (IF v.t = "list"
                              THEN <<"[">> \o Join([x \in 1..Len(v.l) |->
                                                      JsonString(v.l[x])],
                                                   <<",", " ">>) \o <<"]">>
                              ELSE JsonString(text))
                   ELSE k \o <<":", " ">> \o text
        /\ \E rest \in {SubSeq(fmt.out, a, Len(fmt.out)) : a \in 1..(Len(fmt.out) + 1)} :
             rest = Join(fmt.parts, <<",", " ">>)

\* C15 witness: {A: 'a,b', Steps: 20} gives 'A: "a,b", Steps: 20'
C15_Witness ==
    /\ fmt.done
    /\ fmt.params = <<[k |-> <<"A">>, v |-> StrT(<<"a", ",", "b">>)],
                      [k |-> TSteps, v |-> IntT(20)]>>
    /\ fmt.main_prompt = <<>>
    /\ fmt.out = <<"A", ":", " ", "\"", "a", ",", "b", "\"", ",", " ",
                   "S", "t", "e", "p", "s", ":", " ", "2", "0">>

InfotextLines(with_negative) ==
    <<fmt.main_prompt>>
    \o (IF with_negative THEN <<NegativePromptLabel \o fmt.main_negative_prompt>>
        ELSE <<>>)
    \o <<Join(fmt.parts, <<",", " ">>)>>

\* C16 (original statement): every infotext is the prompt text, the line
\* 'Negative prompt: <negative>' and the line of pairs, also when the negative
\* prompt is empty
C16_Original ==
    fmt.done => fmt.out = Strip(Join(InfotextLines(TRUE), <<NL>>))

\* C16: the infotext is the prompt text, then the line 'Negative prompt:
\* <main negative prompt>' exactly when the negative prompt of the image is not
\* empty, then the line of pairs, with white space stripped at both ends
C16_InfotextForm ==
    fmt.done =>
      /\ fmt.out = Strip(Join(InfotextLines(fmt.negative_prompt # <<>>), <<NL>>))
      /\ (fmt.negative_prompt = <<>> /\ fmt.main_prompt # <<>> /\ fmt.parts # <<>>) =>
           fmt.out = fmt.main_prompt \o <<NL>> \o Join(fmt.parts, <<",", " ">>)

\* C16 witness: prompt 'cat', no negative prompt, {Steps: 20}: two lines
C16_Witness ==
    /\ fmt.done
    /\ fmt.negative_prompt = <<>>
    /\ fmt.main_negative_prompt = <<>>
    /\ fmt.out = <<"c", "a", "t", NL, "S", "t", "e", "p", "s", ":", " ", "2", "0">>

\* the infotexts belong, position by position, to the images
InfotextsMatch(texts, images) ==
    /\ Len(texts) = Len(images)
    /\ \A k \in 1..Len(images) :
         /\ images[k].parameters = texts[k]
         /\ DictGet(texts[k].params, "Seed") = images[k].seed
         /\ DictGet(texts[k].params, "Seed") =
               p.all_seeds[images[k].iteration * p.batch_size + images[k].index + 1]

\* C17: in every state of the loop and in every returned result the infotexts
\* and the output images have the same length, and the infotext at position k
\* is the one generated for the image at position k and stored in its
\* info['parameters']
C17_InfotextPerImage ==
    /\ InfotextsMatch(infotexts, output_images)
    /\ res.made => /\ InfotextsMatch(res.infotexts, res.images)
                   /\ res.infotexts = infotexts
                   /\ res.images = output_images

\* C17 witness: a result of four images over two iterations, seeds 42..45
C17_Witness ==
    /\ pc = "done"
    /\ Len(res.images) = 4
    /\ Len(res.infotexts) = 4
    /\ res.images[4].iteration = 1
    /\ DictGet(res.infotexts[4].params, "Seed") = IntV(45)
    /\ DictGet(res.infotexts[1].params, "Seed") = IntV(42)

\* the order of the hooks and phases of one iteration
HookOrder ==
    <<"before_process_batch", "activate", "process_batch", "setup_conds", "sample",
      "decode", "postprocess_batch", "postprocess_batch_list", "postprocess_image">>

Rank(e) == CHOOSE r \in 1..Len(HookOrder) : HookOrder[r] = e

ScriptHooks ==
    {"before_process", "process", "before_process_batch", "process_batch",
     "postprocess_batch", "postprocess_batch_list", "postprocess_image", "postprocess"}

\* whether the run calls the hook or phase e of an iteration at all
Applicable(q, e) ==
    /\ e \in ScriptHooks => q.scripts
    /\ e = "activate" => ~q.disable_extra_networks

ImagesOf(k) == {j \in 1..Len(output_images) : output_images[j].iteration = k}

\* the iterations in index order, one wholly after the other
IterationsInOrder(t) ==
    /\ \A i \in 1..Len(t) : t[i].n \in -1..(p.n_iter - 1)
    /\ \A i, j \in 1..Len(t) :
         (i < j /\ t[i].n >= 0 /\ t[j].n >= 0) => t[i].n <= t[j].n
    /\ \A j \in 1..Len(t) :
         t[j].n > 0 =>
           /\ \E i \in 1..(j - 1) : t[i].n = t[j].n - 1 /\ t[i].e = "decode"
           /\ p.scripts =>
                Cardinality({i \in 1..(j - 1) : /\ t[i].n = t[j].n - 1
                                                /\ t[i].e = "postprocess_image"})
                    = Cardinality(ImagesOf(t[j].n - 1))

\* within an iteration the hooks and phases in the fixed order, none left
\* out, postprocess_image for the images 0, 1, 2, ... in turn
PhasesInOrder(t) ==
    /\ \A i, j \in 1..Len(t) :
         (i < j /\ t[i].n >= 0 /\ t[i].n = t[j].n) =>
            \/ Rank(t[i].e) < Rank(t[j].e)
            \/ /\ t[i].e = "postprocess_image" /\ t[j].e = "postprocess_image"
               /\ t[i].i < t[j].i
    /\ \A j \in 1..Len(t) :
         t[j].n >= 0 =>
           /\ Applicable(p, t[j].e)
           /\ \A r \in 1..(Rank(t[j].e) - 1) :
                Applicable(p, HookOrder[r]) =>
                   \E i \in 1..(j - 1) : t[i].n = t[j].n /\ t[i].e = HookOrder[r]
           /\ t[j].e = "postprocess_image" =>
                /\ t[j].i \in 0..(Cardinality(ImagesOf(t[j].n)) - 1)
                /\ t[j].i > 0 => t[j - 1] = Ev("postprocess_image", t[j].n, t[j].i - 1)
           /\ t[j].e # "postprocess_image" => t[j].i = -1

\* before_process and process once, ahead of everything; postprocess once,
\* after everything, on the result
RequestHooksInOrder(t) ==
    /\ \A j \in 1..Len(t) : t[j].n = -1 => t[j].e \in {"before_process", "process", "postprocess"}
    /\ \A j \in 1..Len(t) : t[j].e \in ScriptHooks => p.scripts
    /\ (p.scripts /\ pc # "start") =>
         /\ Len(t) >= 2
         /\ t[1].e = "before_process"
         /\ t[2].e = "process"
    /\ \A j \in 3..Len(t) : t[j].e \notin {"before_process", "process"}
    /\ \A j \in 1..Len(t) : t[j].e = "postprocess" => (j = Len(t) /\ j > 2 /\ pc = "done")
    /\ (p.scripts /\ pc = "done") =>
         /\ t[Len(t)].e = "postprocess"
         /\ \A k \in 0..(p.n_iter - 1) :
              (\E j \in 1..Len(t) : t[j].n = k) =>
                 Cardinality({j \in 1..Len(t) : t[j].n = k /\ t[j].e = "postprocess_image"})
                     = Cardinality(ImagesOf(k))

\* C18: the iterations run in index order, none started before the one
\* before it has finished; within an iteration the order is
\* before_process_batch, extra-network activation, process_batch, conditioning
\* setup, sample, decode, postprocess_batch, postprocess_batch_list, then
\* postprocess_image once per image in batch order; before_process and process
\* run once before the first iteration, postprocess once after the last
C18_HookOrder ==
    /\ IterationsInOrder(hist.trace)
    /\ PhasesInOrder(hist.trace)
    /\ RequestHooksInOrder(hist.trace)

\* C18 witness: a returned run of two iterations of three images with the
\* script runner attached and the extra networks active
C18_Witness ==
    /\ pc = "done"
    /\ p.scripts /\ ~p.disable_extra_networks
    /\ p.n_iter = 2 /\ Len(output_images) = 6
    /\ Len(hist.trace) = 2 + 2 * (8 + 3) + 1
    /\ hist.trace[Len(hist.trace) - 1] = Ev("postprocess_image", 1, 2)

\* C19: when the skip flag is set during iteration k, the images of iteration
\* k are not added to the output and the loop goes on with iteration k + 1.
\* The flag is reset only at the top of an iteration, so it is still set
\* when iteration k has ended.
C19_SkipDiscards ==
    /\ (pc \in {"loop", "finalize"} /\ state.skipped /\ n >= 1) => ImagesOf(n - 1) = {}
    /\ (pc = "finalize" /\ state.skipped) => n = p.n_iter

\* the first decode of the sample at position j gave NaNs
FirstDecodeNan(j) == test_for_nans(decode_first_stage(dec.batch[j], dec.calls[j].dtype))

\* the sample at position j could be retried: 16-bit VAE, automatic precision
Retriable(j) == dec.calls[j].dtype # "float32" /\ dec.auto_vae_precision

\* C20: with NaN checking, a sample whose decode gives NaNs is decoded once
\* more after the VAE is switched to 32-bit, and when that decode gives NaNs
\* too the error reaches the caller; with a 32-bit VAE or automatic precision
\* off the first NaN error reaches the caller with no retry; no sample with
\* NaNs is appended to the returned list
C20_NanRetry ==
    dec.check_for_nans =>
      /\ \A j \in 1..Len(dec.calls) :
           /\ (FirstDecodeNan(j) /\ Retriable(j)) =>
                /\ dec.calls[j].decodes = 2
                /\ dec.dtype_vae = "float32"
                /\ test_for_nans(decode_first_stage(dec.batch[j], "float32")) =>
                     (dec.at = "raised" /\ dec.exc = "NansException" /\ dec.i = j - 1)
           /\ (FirstDecodeNan(j) /\ ~Retriable(j)) =>
                /\ dec.calls[j].decodes = 1
                /\ dec.at = "raised" /\ dec.exc = "NansException" /\ dec.i = j - 1
           /\ ~FirstDecodeNan(j) => dec.calls[j].decodes = 1
      /\ \A j \in 1..Len(dec.samples) : ~dec.samples[j].nan
      /\ \A j \in 1..Len(dec.out) : ~dec.out[j].nan

\* hr_upscaler names neither a latent upscale mode nor a registered upscaler
Unresolvable(q) ==
    /\ q.kind = "txt2img" /\ q.enable_hr
    /\ q.hr_upscaler.t = "str"
    /\ q.hr_upscaler.s \notin {"Latent", "Latent (nearest)", "None", "Lanczos", "ESRGAN_4x"}

\* C21: with hires enabled and an hr_upscaler that is neither a latent upscale
\* mode nor a registered upscaler, sample() raises before the sampler is
\* invoked, the exception leaves process_images, and there is no result
C21_UnknownUpscalerRaises ==
    /\ Unresolvable(p) =>
         /\ pc \notin {"hires", "decode", "done"}
         /\ ~samples.made /\ ~res.made
         /\ output_images = <<>>
         /\ pc = "raised" => exc \in {"Exception", "IndexError"}
         /\ (pc = "raised" /\ ~state.interrupted) =>
               /\ exc = "Exception"
               /\ hist.trace # <<>>
               /\ hist.trace[Len(hist.trace)] = Ev("sample", 0, -1)
    /\ exc = "Exception" => (Unresolvable(p) /\ pc = "raised" /\ n = 0)

\* C21 witness: the run of a request with upscaler 'R-ESRGAN 9x' has raised
C21_Witness ==
    /\ pc = "raised" /\ exc = "Exception"
    /\ p.hr_upscaler = StrV("R-ESRGAN 9x")
    /\ ~res.made /\ ~samples.made

\* C22: image-to-image init with k source images and batch size b: k = 1
\* makes b copies of the image and of its overlay and leaves batch_size = b;
\* 1 < k <= b sets batch_size to k; k > b raises RuntimeError and nothing is
\* sampled
C22_BatchOfSourceImages ==
    LET k == inp.init_images
        b == inp.b0
    IN  inp.at \notin {"unused", "new"} =>
          /\ k = 1 =>
               /\ inp.at # "raised"
               /\ inp.batch_size = b
               /\ Len(inp.pixels) = b /\ Len(inp.init_latent) = b
               /\ \A j \in 1..b : inp.pixels[j] = inp.pixels[1]
               /\ inp.image_mask # <<>> =>
                    /\ Len(inp.overlay_images) = b
                    /\ \A j \in 1..b : inp.overlay_images[j] = inp.overlay_images[1]
          /\ (1 < k /\ k <= b) =>
               /\ inp.at # "raised"
               /\ inp.batch_size = k
               /\ Len(inp.pixels) = k /\ Len(inp.init_latent) = k
          /\ k > b =>
               /\ inp.at = "raised" /\ inp.exc = "RuntimeError"
               /\ inp.pixels = <<>> /\ inp.init_latent = <<>>
               /\ inp.samples = <<>> /\ inp.images = <<>>
          /\ inp.exc = "RuntimeError" => k > b

\* C22 witness: one masked source image at batch size 3, pasted back
C22_Witness ==
    /\ inp.at = "pasted"
    /\ inp.init_images = 1 /\ inp.b0 = 3 /\ inp.image_mask # <<>>
    /\ Len(inp.images) = 3 /\ Len(inp.overlay_images) = 3

\* C23: the override settings of the request are in the global options
\* while the iterations run and, when override_settings_restore_afterwards
\* is set, every overridden option has its prior value again once
\* process_images has returned
C23_OverrideSettings ==
    \A j \in 1..Len(p.override_settings) :
       LET e == p.override_settings[j]
       IN  /\ pc \in {"loop", "sample", "hires", "decode"} => opts[e.k] = e.v
           /\ (pc = "done" /\ p.override_settings_restore_afterwards)
                 => opts[e.k] = DefaultOpts[e.k]

\* the mask given covers the whole image and is not inverted
FullMask ==
    /\ inp.image_mask # <<>>
    /\ ~inp.inpainting_mask_invert
    /\ \A c \in Cells : create_binary_mask(inp.image_mask[1])[c] = 255

CeilKernel(r) == 2 * ((5 * r + 2) \div 2) + 1

BlurOps == SelectSeq(inp.ops, LAMBDA o : o.op = "blur")

\* the blurs made: the horizontal one, if any, then the vertical one, if
\* any, with kernels of the lengths len_x and len_y
BlursMade(len_x, len_y) ==
    LET hor == IF inp.mask_blur_x > 0
               THEN <<[op |-> "blur", kx |-> len_x, ky |-> 1,
                       sigma |-> inp.mask_blur_x]>>
               ELSE <<>>
        ver == IF inp.mask_blur_y > 0
               THEN <<[op |-> "blur", kx |-> 1, ky |-> len_y,
                       sigma |-> inp.mask_blur_y]>>
               ELSE <<>>
    IN  hor \o ver

\* C25: for every integer blur radius r > 0 the kernel on that axis has
\* length 2 * ceil(2.5 * r + 0.5) + 1, the horizontal and the vertical blur
\* are made independently, each with its own radius, and an axis of radius 0
\* is not blurred
C25_KernelLength ==
    (inp.at \notin {"unused", "new"} /\ inp.image_mask # <<>>) =>
        BlurOps = BlursMade(CeilKernel(inp.mask_blur_x), CeilKernel(inp.mask_blur_y))

\* C26: when the inversion of the mask is requested, init makes the binary
\* mask, blurs it horizontally, blurs it vertically and then inverts it: the
\* inversion is applied to the blurred mask, never ahead of a blur
C26_InvertAfterBlur ==
    (inp.at \notin {"unused", "new"} /\ inp.image_mask # <<>>
        /\ inp.inpainting_mask_invert) =>
      /\ inp.ops # <<>>
      /\ inp.ops[1].op = "binary"
      /\ inp.ops[Len(inp.ops)].op = "invert"
      /\ \A i, j \in 1..Len(inp.ops) :
           (inp.ops[i].op = "blur" /\ inp.ops[j].op = "invert") => i < j

\* the source image behind entry j of the batch
SourceOf(j) == SourceImage(IF inp.init_images = 1 THEN 1 ELSE j)

\* C27: with a mask, policies 0 and 1 leave the source pixels as they are
\* before encoding and the encoded latent as it is; policy 2 makes the latent
\* latent * mask + noise * nmask after encoding; policy 3 makes it
\* latent * mask
C27_FillPolicy ==
    (inp.at \in {"inited", "sampled", "pasted"} /\ inp.image_mask # <<>>) =>
      \A j \in 1..Len(inp.init_latent) :
         /\ inp.inpainting_fill \in {0, 1} =>
              /\ inp.pixels[j] = SourceOf(j)
              /\ inp.init_latent[j] = inp.encoded[j]
         /\ inp.inpainting_fill = 2 =>
              \A c \in Cells :
                 inp.init_latent[j][c] =
                    IF inp.mask[1][c] = 1 THEN inp.encoded[j][c] ELSE Tok("noise", j, c)
         /\ inp.inpainting_fill = 3 =>
              \A c \in Cells :
                 inp.init_latent[j][c] =
                    IF inp.mask[1][c] = 1 THEN inp.encoded[j][c] ELSE Tok("zero", j, c)

\* a seed given as a number other than -1, or as a list
Concrete(v) == v.t = "list" \/ (v.t = "int" /\ v # IntV(-1))

\* the request after the setup of a run of the request as given, under the
\* options in force, had the random draws been r1 and r2
SetupOf(r1, r2) ==
    LET seed == get_fixed_seed(hist.p0.seed, r1)
        subseed == get_fixed_seed(hist.p0.subseed, r2)
        q1 == setup_prompts(hist.p0)
        q2 == [q1 EXCEPT
                 !.all_seeds = ExpandSeeds(seed, q1.subseed_strength, Len(q1.all_prompts)),
                 !.all_subseeds = ExpandSubseeds(subseed, Len(q1.all_prompts))]
    IN  init(q2, InitState, opts).p

\* the arguments of the RNG context of iteration k of the request q, over a
\* latent of the given shape
RngOf(q, k, shape) ==
    ImageRNG(shape,
             Slice(q.all_seeds, k * q.batch_size, (k + 1) * q.batch_size),
             Slice(q.all_subseeds, k * q.batch_size, (k + 1) * q.batch_size),
             q.subseed_strength, q.seed_resize_from_h, q.seed_resize_from_w)

HiresShapeOf(q) ==
    LET wy == TruncateWindow(q.hr_upscale_to_y \div opt_f, q.truncate_y)
        wx == TruncateWindow(q.hr_upscale_to_x \div opt_f, q.truncate_x)
    IN  <<opt_C, wy[2] - wy[1], wx[2] - wx[1]>>

EmptySlice(k) == Len(p.all_prompts) <= k * p.batch_size

EventsOf(k) == {hist.trace[j].e : j \in {i \in 1..Len(hist.trace) : hist.trace[i].n = k}}

\* C29: an iteration whose prompt slice is empty is passed over, with no
\* extra-network activation, no sampling and no output for it, and the loop
\* goes on with the next index: in a run that was not interrupted every
\* index up to n_iter - 1 is entered and before_process_batch runs for it
C29_EmptySliceContinues ==
    (pc \in {"finalize", "done"} /\ ~state.interrupted) =>
      /\ n = p.n_iter
      /\ \A k \in 0..(p.n_iter - 1) :
           /\ p.scripts => "before_process_batch" \in EventsOf(k)
           /\ EmptySlice(k) =>
                /\ EventsOf(k) \subseteq {"before_process_batch"}
                /\ ImagesOf(k) = {}

\* the hires pass of the request is still enabled after init
StaysHires == jobs.p.kind = "txt2img" /\ jobs.p.enable_hr

\* C30: when job_count is -1 at the start of a run, it is n_iter after the
\* setup of a run without an effective hires pass and 2 * n_iter after that
\* of a text-to-image run whose hires pass stays enabled; when an earlier
\* component has fixed it (job_count not -1 and
\* processing_has_refined_job_count set) it is left as it is; the doubling
\* for hires is applied at most once however often init is called
C30_JobCount ==
    /\ (jobs.at = "counted" /\ jobs.state0.job_count = -1) =>
          jobs.state.job_count = IF StaysHires THEN 2 * jobs.p.n_iter ELSE jobs.p.n_iter
    /\ (jobs.state0.job_count # -1 /\ jobs.state0.processing_has_refined_job_count) =>
          jobs.state = jobs.state0
    /\ jobs.doublings <= 1
    /\ jobs.state0.job_count # -1 =>
          jobs.state.job_count \in {jobs.state0.job_count, 2 * jobs.state0.job_count}

\* C30 witness: init called three times on a request whose hires pass stays
\* enabled, in a run that started with nothing counted
C30_Witness ==
    /\ jobs.at = "counted" /\ jobs.calls = 3
    /\ jobs.state0.job_count = -1
    /\ StaysHires /\ jobs.p.n_iter = 2
    /\ jobs.state.job_count = 4
    /\ jobs.doublings = 1

\* a call of calculate_hr_conds: the slot list is [hires slot, base slot]
HiresLookup(r) == Len(r.caches) = 2

HiresSlot(r) == r.caches[1]

BaseSlot(r) == r.caches[2]

HitsIn(r, s) == r.before.inst[s].has /\ r.before.inst[s].key = r.params

\* C31: the hires lookup scans [hires slot, base slot]: a hit in the base slot
\* returns the base tensor, computes nothing and leaves both slots as they
\* were; a miss in both stores the key and the tensor in the hires slot only,
\* the base slot keeps its key and tensor, and a base lookup of the key the
\* base slot held still hits it
C31_HiresLookup ==
    \A i \in 1..Len(call) :
      LET r == call[i] IN
        HiresLookup(r) =>
          /\ r.caches \in {<<"cached_hr_uc", "cached_uc">>, <<"cached_hr_c", "cached_c">>}
          /\ (HitsIn(r, BaseSlot(r)) /\ ~HitsIn(r, HiresSlot(r))) =>
                /\ r.ret = r.before.inst[BaseSlot(r)].val
                /\ r.computed = 0
                /\ r.after.inst[HiresSlot(r)] = r.before.inst[HiresSlot(r)]
                /\ r.after.inst[BaseSlot(r)] = r.before.inst[BaseSlot(r)]
          /\ (~HitsIn(r, BaseSlot(r)) /\ ~HitsIn(r, HiresSlot(r))) =>
                /\ r.computed = 1
                /\ r.after.inst[HiresSlot(r)] =
                       [has |-> TRUE, key |-> r.params, val |-> r.ret]
                /\ r.after.inst[BaseSlot(r)] = r.before.inst[BaseSlot(r)]
                /\ r.before.inst[BaseSlot(r)].has =>
                       LET nxt == get_conds_with_caching(r.after, r.fn,
                                      r.before.inst[BaseSlot(r)].key, <<BaseSlot(r)>>)
                       IN  /\ nxt.computed = 0
                           /\ nxt.ret = r.before.inst[BaseSlot(r)].val
                           /\ nxt.cache = r.after

\* C31 witness: with the base slot filled, a hires lookup of another key
\* missed both slots and filled the hires slot, and the hires lookup after it,
\* of the base slot's key, hit the base slot
C31_Witness ==
    /\ Len(call) = 2
    /\ HiresLookup(call[1]) /\ HiresLookup(call[2])
    /\ call[1].before.inst[BaseSlot(call[1])].has
    /\ ~call[1].before.inst[HiresSlot(call[1])].has
    /\ call[1].computed = 1
    /\ call[1].after.inst[HiresSlot(call[1])].key = call[1].params
    /\ HitsIn(call[2], BaseSlot(call[2])) /\ ~HitsIn(call[2], HiresSlot(call[2]))
    /\ call[2].computed = 0
    /\ call[2].after = call[1].after

\* C32: on every run that returns a result, if extra_networks.activate was
\* called in an iteration or in a hires pass of the run, then
\* extra_networks.deactivate is called after the last iteration and before
\* the result is assembled
C32_DeactivateAtFinalize ==
    (pc = "done" /\ res.made) =>
        ((\E j \in 1..Len(hist.nets) : hist.nets[j] \in {"activate", "hr_activate"})
            => /\ hist.nets # <<>>
               /\ hist.nets[Len(hist.nets)] = "deactivate")

\* C32, where a network was named by the prompt of the last iteration:
\* deactivate is then the last call, made once
C32_DeactivateWhenNamed ==
    (pc \in {"done", "raised"} /\ exc \in {"none", "IndexError"}
        /\ ~p.disable_extra_networks /\ p.extra_network_data # "") =>
        /\ hist.nets # <<>>
        /\ hist.nets[Len(hist.nets)] = "deactivate"
        /\ \A j \in 1..(Len(hist.nets) - 1) : hist.nets[j] # "deactivate"

\* C32 case: a run that activated the networks of its hires prompt and
\* returned its result without deactivating anything
C32_HiresNetworkLeftActive ==
    /\ pc = "done" /\ res.made
    /\ p.hr_extra_network_data # "" /\ p.extra_network_data = ""
    /\ "hr_activate" \in {hist.nets[j] : j \in 1..Len(hist.nets)}
    /\ "deactivate" \notin {hist.nets[j] : j \in 1..Len(hist.nets)}

\* C33: the request of a run that started with batch_size >= 1 has
\* batch_size >= 1 in every state of the run, also after the init of an
\* image-to-image request has set batch_size to the number of source images,
\* for every length of init_images
C33_BatchSizePositive ==
    (pc # "start" /\ hist.p0.batch_size >= 1) => p.batch_size >= 1

\* C33, for requests with at least one source image: batch_size stays >= 1,
\* and is the number of source images when there are 2..batch_size of them
C33_BatchSizeWithSources ==
    (pc # "start" /\ hist.p0.batch_size >= 1
        /\ (p.kind = "img2img" => Len(p.init_images) >= 1)) =>
        /\ p.batch_size >= 1
        /\ (p.kind = "img2img" /\ exc = "none" /\ Len(p.init_images) > 1) =>
              p.batch_size = Len(p.init_images)

\* C33 case: an image-to-image request that came with batch_size >= 1 and no
\* source image holds batch_size 0
C33_NoSourceImage ==
    /\ p.kind = "img2img" /\ p.init_images = <<>>
    /\ hist.p0.batch_size >= 1
    /\ p.batch_size = 0

\* the attributes of the object before the last call of set_p
Before(name) == DictGet(ad.self0, name)

NoSavingFormat == ~(\E name \in {"GIF", "MP4", "PNG"} : InFormat(ad.self0, name))

C33_SetPBatchSize ==
    (ad.at = "set") =>
        /\ ad.p.batch_size = Max(IntOf(Before("video_length")), IntOf(Before("batch_size")))
        /\ ad.p.batch_size >= 1

\* the parameters of the constructor, in order
ConstructorOrder ==
    <<"model", "enable", "video_length", "fps", "loop_number", "closed_loop",
      "batch_size", "stride", "overlap", "format", "interp", "interp_x", "reverse",
      "video_source", "video_path", "latent_power", "latent_scale", "last_frame",
      "latent_power_last", "latent_scale_last">>

ListAsked == ad.at # "unused" /\ ad.list # <<>>

ExpectedList ==
    [j \in 1..(IF ad.is_img2img THEN 20 ELSE 15) |-> DictGet(ad.self, ConstructorOrder[j])]

\* C39: get_list(False) returns the fifteen values model..video_path in
\* constructor order, without the five image-to-image values, and
\* get_list(True) returns all twenty, in every state of the object, also
\* after set_p has been called on it
C39_GetList ==
    ListAsked => ad.list = ExpectedList

\* C39, on an object set_p has not changed: the fifteen and the twenty values
C39_GetListBeforeSetP ==
    (ListAsked /\ ad.at # "set") => ad.list = ExpectedList

\* C39 case: after set_p the object has the attribute video_default, the
\* list for text-to-image has sixteen values and ends with latent_power
C39_AfterSetP ==
    /\ ListAsked /\ ad.at = "set" /\ ~ad.is_img2img
    /\ Len(ad.list) = 16
    /\ ad.list[16] = DictGet(ad.self, "latent_power")
    /\ DictHas(ad.self, "video_default")

\* the user-supplied video length was 0
UserDefault == IntOf(DictGet(ad.user, "video_length")) = 0

\* C40: after a successful call p.batch_size is the greater of video_length
\* and batch_size before the call, video_length is p.batch_size if it was 0,
\* overlap is batch_size div 4 if it was -1, video_default is true exactly
\* when the user-supplied video_length was 0, and a second call of set_p on
\* the same object and request changes none of p.batch_size, video_length,
\* overlap, video_default
C40_SetPIdempotent ==
    (ad.at = "set") =>
        /\ ad.p.batch_size = Max(IntOf(Before("video_length")), IntOf(Before("batch_size")))
        /\ IntOf(Before("video_length")) = 0 =>
              IntOf(DictGet(ad.self, "video_length")) = ad.p.batch_size
        /\ IntOf(Before("overlap")) = -1 =>
              IntOf(DictGet(ad.self, "overlap")) = IntOf(Before("batch_size")) \div 4
        /\ DictGet(ad.self, "video_default") = BoolV(UserDefault)
        /\ ad.calls = 2 =>
              /\ ad.p.batch_size = ad.p0.batch_size
              /\ DictGet(ad.self, "video_length") = Before("video_length")
              /\ DictGet(ad.self, "overlap") = Before("overlap")
              /\ DictGet(ad.self, "video_default") = Before("video_default")

\* C40 without video_default: the values after a call, and a second call
\* that changes none of p.batch_size, video_length, overlap; video_default is
\* true exactly when video_length was 0 before the call that set it
C40_SetPValues ==
    (ad.at = "set") =>
        /\ ad.p.batch_size = Max(IntOf(Before("video_length")), IntOf(Before("batch_size")))
        /\ IntOf(Before("video_length")) = 0 =>
              IntOf(DictGet(ad.self, "video_length")) = ad.p.batch_size
        /\ IntOf(Before("overlap")) = -1 =>
              IntOf(DictGet(ad.self, "overlap")) = IntOf(Before("batch_size")) \div 4
        /\ DictGet(ad.self, "video_default") = BoolV(IntOf(Before("video_length")) = 0)
        /\ ad.calls = 2 =>
              /\ ad.p = ad.p0
              /\ DictGet(ad.self, "video_length") = Before("video_length")
              /\ DictGet(ad.self, "overlap") = Before("overlap")

\* C40 case: the second call turned video_default from true to false
C40_DefaultFlips ==
    /\ ad.at = "set" /\ ad.calls = 2 /\ UserDefault
    /\ Before("video_default") = BoolV(TRUE)
    /\ DictGet(ad.self, "video_default") = BoolV(FALSE)

\* C35: in a run that completes all n_iter iterations (no interrupt, no empty
\* slice) the number of state.nextjob() calls equals the job count the run
\* established: n_iter without an effective hires pass, 2 * n_iter with it
C35_NextJobCalls ==
    (pc \in {"finalize", "done"} /\ n = p.n_iter) =>
        /\ state.job_no = state.job_count
        /\ state.job_count = IF p.kind = "txt2img" /\ p.enable_hr
                             THEN 2 * p.n_iter ELSE p.n_iter

\* C35 witness: a finished hires run of two iterations with four calls, and
\* a skip requested on the way
C35_Witness ==
    /\ pc = "done" /\ res.made
    /\ p.kind = "txt2img" /\ p.enable_hr /\ p.n_iter = 2 /\ n = 2
    /\ state.job_no = 4
    /\ state.skipped

\* C36: the second pass never runs with a sampler without continuation
\* support: for every sampler_name and hr_sampler_name the sampler created for
\* it is neither PLMS nor UniPC, and a chosen hr_sampler_name that supports
\* continuation is the one used
C36_HiresSamplerSupported ==
    samples.hires =>
        /\ samples.hr_sampler \notin NoContinuation
        /\ (Truthy(hist.p0.hr_sampler_name)
              /\ hist.p0.hr_sampler_name \notin NoContinuation) =>
                 samples.hr_sampler = hist.p0.hr_sampler_name

\* C36 as the code has it: the second pass runs with DDIM when sampler_name is
\* PLMS or UniPC, else with hr_sampler_name when one is given, else with
\* sampler_name; so it is PLMS or UniPC only when hr_sampler_name is
SecondPassSampler ==
    samples.hires =>
        /\ samples.hr_sampler \in NoContinuation =>
              /\ hist.p0.hr_sampler_name = samples.hr_sampler
              /\ hist.p0.sampler_name \notin NoContinuation
        /\ hist.p0.sampler_name \notin NoContinuation =>
              samples.hr_sampler = IF Truthy(hist.p0.hr_sampler_name)
                                   THEN hist.p0.hr_sampler_name
                                   ELSE hist.p0.sampler_name

\* C36 case: a second pass that ran with PLMS, chosen as hr_sampler_name
\* beside a base sampler that supports continuation
C36_SecondPassWithPLMS ==
    /\ pc = "decode" /\ samples.hires
    /\ hist.p0.sampler_name = StrV("Euler a")
    /\ hist.p0.hr_sampler_name = StrV("PLMS")
    /\ samples.hr_sampler = StrV("PLMS") /\ p.sampler = StrV("PLMS")

\* the overall position (from 1) of an output image
PositionOf(img) == img.iteration * p.batch_size + img.index + 1

NegativeShown(text) == IF text # "" THEN StrV(text) ELSE NoneV

\* C37: with a list of prompts and negative prompts, the infotext of the
\* output image at overall position k begins with all_prompts[k] and shows
\* all_negative_prompts[k] on its "Negative prompt:" line
C37_InfotextOwnPrompt ==
    hist.p0.prompt.isList =>
        \A j \in 1..Len(output_images) :
            LET img == output_images[j] IN
              /\ img.parameters.prompt_text = p.all_prompts[PositionOf(img)]
              /\ img.parameters.negative =
                     NegativeShown(p.all_negative_prompts[PositionOf(img)])

\* C37 as the code has it: every infotext begins with the first prompt of the
\* request and shows the first negative prompt, on the images whose own
\* negative prompt is not empty
InfotextMainPrompt ==
    \A j \in 1..Len(output_images) :
        LET img == output_images[j] IN
          /\ img.parameters.prompt_text = p.all_prompts[1]
          /\ img.parameters.negative =
                 IF p.all_negative_prompts[PositionOf(img)] # ""
                 THEN StrV(p.all_negative_prompts[1]) ELSE NoneV
          /\ ~hist.p0.prompt.isList =>
                 img.parameters.prompt_text = p.all_prompts[PositionOf(img)]

\* C37 case: the second image of a list request, generated from "cat 2",
\* with an infotext that begins with "cat 1"
C37_SecondImageFirstPrompt ==
    /\ hist.p0.prompt.isList /\ Len(output_images) >= 2
    /\ PositionOf(output_images[2]) = 2
    /\ output_images[2].prompt = "cat 2"
    /\ p.all_prompts[2] = "cat 2"
    /\ output_images[2].parameters.prompt_text = "cat 1"

\* the slots of the class and of the request
AllSlots == {cache.cls[s] : s \in SlotNames} \cup {cache.inst[s] : s \in SlotNames}

\* C38: when the compute function raises inside get_conds_with_caching every
\* slot keeps the key and the tensor it held before the call; in every state a
\* slot that holds a key holds the tensor computed for that key
C38_RaiseKeepsSlots ==
    /\ cpc.at = "raised" => cache = cpc.before
    /\ \A slot \in AllSlots :
         IF slot.has THEN slot.val # NoTensor /\ slot.val.for = slot.key
         ELSE slot = EmptySlot

\* C38 witness: the function raised on a call that missed a filled slot
C38_Witness ==
    /\ cpc.at = "raised"
    /\ cache.inst["cached_uc"].has
    /\ cache.inst["cached_uc"].val.for = cache.inst["cached_uc"].key
    /\ cpc.before = cache
    /\ cpc.ops = 3

====
